---- MODULE Spec2Model ----
(***************************************************************************)
(* A model of mvisor's DeviceManager (src/mvisor/core/device_manager.cc):  *)
(* the GSI routing mirror with AddMsiRoute / UpdateMsiRoute /              *)
(* UpdateGsiRoutingTable, and the PIO / MMIO dispatch of HandleIo and      *)
(* HandleMmio with its move-to-front heuristic.                            *)
(*                                                                         *)
(* Threads run the operations step by step.  A region of the code that    *)
(* runs between mutex_.lock() and mutex_.unlock() is one step; every read  *)
(* or write the code makes outside the mutex is a step of its own, so the  *)
(* interleavings of the model are those of the code.                       *)
(***************************************************************************)
EXTENDS Integers, Sequences, FiniteSets, TLC

VARIABLES
  gsi_routing_table_,  \* the in-process mirror: a sequence of routing entries
  next_gsi_,           \* the next gsi AddMsiRoute hands out
  kernel_table,        \* the table of the last KVM_SET_GSI_ROUTING ioctl
  kernel_irqfds,       \* the (fd, gsi) bindings made by KVM_IRQFD
  constructed,         \* SetupGsiRoutingTable has run
  panic,               \* MV_PANIC was reached: the process is gone
  ub,                  \* an operation with undefined behaviour went wrong
  pio_handlers_,       \* deque<IoHandler*> of the port handlers
  mmio_handlers_,      \* deque<IoHandler*> of the MMIO handlers
  mutex_,              \* the thread inside a dispatcher's locked region
  pc,                  \* per thread: where it stands in its operation
  loc,                 \* per thread: the locals of its operation
  ret_log,             \* the values AddMsiRoute returned, in order of return
  calls,               \* the number of operations started so far
  history,             \* the last AddMsiRoute call and what was called after it
  registered_devices_, \* std::set<Device*> of the registered devices
  ioevents_,           \* std::set<IoEvent*> of the live events
  kernel_ioeventfds,   \* the bindings made by KVM_IOEVENTFD
  polled_fds,          \* the fds the I/O thread polls
  open_fds,            \* the eventfds created and not closed
  io_trace,            \* what UnregisterIoEvent has done, in order
  event_log,           \* every step any UnregisterIoEvent call has made
  valid_,              \* Machine::valid_
  kicks,               \* per vCPU: the number of Kick() calls
  io_stops,            \* the number of io_thread_->Stop() calls
  objects_,            \* Machine::objects_: the objects not yet deleted
  destroyed,           \* what ~Machine has deleted, in order
  io_requests          \* the requests made of the I/O worker in ~Machine

vars == << gsi_routing_table_, next_gsi_, kernel_table, kernel_irqfds,
           constructed, panic, ub, pio_handlers_, mmio_handlers_, mutex_,
           pc, loc, ret_log, calls, history, registered_devices_, ioevents_,
           kernel_ioeventfds, polled_fds, open_fds, io_trace, event_log,
           valid_, kicks, io_stops, objects_, destroyed, io_requests >>

gsiVars == << gsi_routing_table_, next_gsi_, kernel_table, kernel_irqfds,
              constructed, panic, ret_log, history >>

ioVars == << pio_handlers_, mmio_handlers_, mutex_, ub >>

eventVars == << ioevents_, kernel_ioeventfds, polled_fds, open_fds, io_trace,
               event_log >>

teardownVars == << objects_, destroyed, io_requests >>

machineVars == << valid_, kicks, io_stops, teardownVars >>

\* What the GSI operations and the dispatchers leave alone.
mgmtVars == << registered_devices_, eventVars, machineVars >>

-----------------------------------------------------------------------------
(* Bounds and input sets                                                   *)

Threads == {"t1", "t2"}

NoThread == "none"

\* A run starts at most MaxCalls operations.
MaxCalls == 3

\* HandleIo is called with count in 0..MaxCount.
MaxCount == 2

\* A 64-bit MSI address is the pair <<high 32 bits, low 32 bits>>.
Addresses == { <<0, 0>>, <<0, 1>>, <<1, 0>> }

AddressIsZero(address) == address = <<0, 0>>

\* (uint32_t)address
address_lo(address) == address[2]

\* (uint32_t)(address >> 32)
address_hi(address) == address[1]

DataValues == {7}

\* trigger_fd: -1 is "no irqfd".
TriggerFds == {-1, 9}

\* The gsi arguments of UpdateMsiRoute: an IRQCHIP gsi, and MSI gsis that
\* are or are not in the table.
GsiArgs == {5, 24, 25, 26}

\* The inputs of the concurrent runs: routes are added with a nonzero
\* address, and updated or removed by the gsi AddMsiRoute returned.
ConcAddAddresses == { <<0, 1>> }

ConcUpdAddresses == { <<0, 0>>, <<1, 0>> }

ConcGsiArgs == {5, 24, 25}

-----------------------------------------------------------------------------
(* GSI routing entries.  u is the union of kvm_irq_routing_entry:          *)
(* u.irqchip = {irqchip, pin} and u.msi = {address_lo, address_hi, data}   *)
(* share the words w0, w1, w2.                                             *)

IrqchipEntry(gsi, chip, pin) ==
  [gsi |-> gsi, type |-> "IRQCHIP", w0 |-> chip, w1 |-> pin, w2 |-> 0]

MsiEntry(gsi, address, data) ==
  [gsi |-> gsi, type |-> "MSI",
   w0 |-> address_lo(address), w1 |-> address_hi(address), w2 |-> data]

add_irq_routing(table, gsi, chip, pin) ==
  Append(table, IrqchipEntry(gsi, chip, pin))

\* The master loop without its test of i != 2.
RECURSIVE MasterLoop_NoSkip(_, _)
MasterLoop_NoSkip(table, i) ==
  IF i >= 8 THEN table
  ELSE MasterLoop_NoSkip(add_irq_routing(table, i, 0, i), i + 1)

RECURSIVE MasterLoop(_, _)
MasterLoop(table, i) ==
  IF i >= 8 THEN table
  ELSE MasterLoop(IF i # 2 THEN add_irq_routing(table, i, 0, i) ELSE table,
                  i + 1)

RECURSIVE SlaveLoop(_, _)
SlaveLoop(table, i) ==
  IF i >= 8 THEN table
  ELSE SlaveLoop(add_irq_routing(table, 8 + i, 1, i), i + 1)

RECURSIVE IoapicLoop(_, _)
IoapicLoop(table, i) ==
  IF i >= 24 THEN table
  ELSE IoapicLoop(IF i = 0 THEN add_irq_routing(table, i, 2, 2)
                  ELSE IF i # 2 THEN add_irq_routing(table, i, 2, i)
                  ELSE table,
                  i + 1)

\* The table SetupGsiRoutingTable builds from an empty mirror.
SetupTable == IoapicLoop(SlaveLoop(MasterLoop(<< >>, 0), 0), 0)

\* next_gsi_ started one too low.
FirstMsiGsi_Low == 24 - 1

\* next_gsi_ = 24
FirstMsiGsi == 24

-----------------------------------------------------------------------------
(* Sequence helpers                                                        *)

\* An erase of begin() instead of it.
EraseAt_Front(s, i) == Tail(s)

\* erase(it): the sequence without its element at index i (1-based).
EraseAt(s, i) ==
  [k \in 1..(Len(s) - 1) |-> IF k < i THEN s[k] ELSE s[k + 1]]

\* std::find_if over the routing table: the first index whose gsi is g,
\* 0 for end().
FindGsi(table, g) ==
  IF \E k \in 1..Len(table) : table[k].gsi = g
  THEN CHOOSE k \in 1..Len(table) :
         /\ table[k].gsi = g
         /\ \A j \in 1..(k - 1) : table[j].gsi # g
  ELSE 0

-----------------------------------------------------------------------------
(* Thread locals                                                           *)

NoHandler == [resource |-> [type |-> "none", base |-> 0, length |-> 0],
              device |-> "none"]

\* The locals of the GSI operations (gsi .. buffer) and of the dispatchers:
\* port is the port or address, bytes the caller's buffer at data, it_count
\* the index of the match (-1: none), handler the matched entry, i the
\* loop counter of HandleIo, log the device calls made so far, unlocks the
\* number of mutex_.unlock() calls made; device is the argument of
\* RegisterDevice, event that of UnregisterIoEvent.
NoLocals ==
  [op |-> "none", gsi |-> -1, fd |-> -1, address |-> <<0, 0>>, data |-> 0,
   cap |-> 0, buffer |-> << >>,
   port |-> 0, size |-> 0, is_write |-> FALSE, count |-> 0, bytes |-> << >>,
   it_count |-> -1, handler |-> NoHandler, i |-> 0, log |-> << >>,
   unlocks |-> 0, device |-> "none", event |-> << >>]

Idle(t) == pc[t] = "idle"

Range(s) == { s[k] : k \in 1..Len(s) }

\* history: "adding" from the entry of AddMsiRoute (table is the mirror at
\* that moment), "added" from its return (gsi is the value returned),
\* "removing" while the next call, UpdateMsiRoute(gsi, 0, _, fd) with the
\* same fd, runs, "removed" from its return; "other" after any other call.
NoHistory == [kind |-> "none", table |-> << >>, gsi |-> -1, fd |-> -1]

OtherHistory == [NoHistory EXCEPT !.kind = "other"]

Alive == ~panic

\* mutex_.lock() returns at once for a thread that finds the mutex taken.
Lockable_Always(t) == TRUE

\* mutex_.lock() returns when no other thread holds the mutex.
Lockable(t) == mutex_ = NoThread

\* A mutex_.unlock() that leaves the mutex with its holder.
Unlock_Kept(holder, t) == holder

\* mutex_.unlock() by thread t, which took the mutex once: the holder
\* afterwards.
Unlock(holder, t) == IF holder = t THEN NoThread ELSE holder

\* MV_PANIC logs and ends the process: no thread takes another step.
MV_PANIC == TRUE

-----------------------------------------------------------------------------
(* DeviceManager::SetupGsiRoutingTable, run by the constructor before any  *)
(* other thread exists: the loops, next_gsi_ = 24, and the push.           *)

SetupGsiRoutingTable ==
  /\ ~constructed
  /\ gsi_routing_table_' = SetupTable
  /\ next_gsi_' = FirstMsiGsi
  /\ kernel_table' = SetupTable
  /\ constructed' = TRUE
  /\ UNCHANGED << mgmtVars, kernel_irqfds, panic, ret_log, ioVars, pc, loc, calls,
                  history >>

-----------------------------------------------------------------------------
(* DeviceManager::AddMsiRoute                                              *)

\* auto gsi = next_gsi_++ : the read.  next_gsi_ is read and written with
\* no lock held, so the read and the write are two steps.
AddMsiRoute_load(t, address, data, trigger_fd) ==
  /\ constructed /\ Alive /\ Idle(t)
  /\ calls < MaxCalls
  /\ calls' = calls + 1
  /\ pc' = [pc EXCEPT ![t] = "add_store"]
  /\ loc' = [loc EXCEPT ![t] = [NoLocals EXCEPT !.op = "add",
                                               !.gsi = next_gsi_,
                                               !.address = address,
                                               !.data = data,
                                               !.fd = trigger_fd]]
  /\ history' = [kind |-> "adding", table |-> gsi_routing_table_,
                 gsi |-> -1, fd |-> trigger_fd]
  /\ UNCHANGED << mgmtVars, gsi_routing_table_, next_gsi_, kernel_table, kernel_irqfds,
                  constructed, panic, ret_log, ioVars >>

\* auto gsi = next_gsi_++ : the write.
IncrementedGsi(gsi) == gsi + 1

AddMsiRoute_store(t) ==
  /\ Alive /\ pc[t] = "add_store"
  /\ next_gsi_' = IncrementedGsi(loc[t].gsi)
  /\ pc' = [pc EXCEPT ![t] = "add_push"]
  /\ UNCHANGED << mgmtVars, gsi_routing_table_, kernel_table, kernel_irqfds,
                  constructed, panic, ret_log, ioVars, loc, calls, history >>

\* mutex_.lock(); gsi_routing_table_.push_back(entry); mutex_.unlock();
AddMsiRoute_push(t) ==
  /\ Alive /\ pc[t] = "add_push" /\ Lockable(t)
  /\ gsi_routing_table_' =
       Append(gsi_routing_table_,
              MsiEntry(loc[t].gsi, loc[t].address, loc[t].data))
  /\ pc' = [pc EXCEPT ![t] = "ugrt_alloc"]
  /\ loc' = [loc EXCEPT ![t].address = <<0, 0>>, ![t].data = 0]
  /\ UNCHANGED << mgmtVars, next_gsi_, kernel_table, kernel_irqfds, constructed,
                  panic, ret_log, ioVars, calls, history >>

\* The KVM_IRQFD assign after the push, and the return of gsi.
AddMsiRoute_irqfd(t) ==
  /\ Alive /\ pc[t] = "add_irqfd"
  /\ kernel_irqfds' = IF loc[t].fd # -1
                      THEN kernel_irqfds \cup { <<loc[t].fd, loc[t].gsi>> }
                      ELSE kernel_irqfds
  /\ ret_log' = Append(ret_log, loc[t].gsi)
  /\ pc' = [pc EXCEPT ![t] = "idle"]
  /\ loc' = [loc EXCEPT ![t] = NoLocals]
  /\ history' = IF history.kind = "adding"
                 THEN [history EXCEPT !.kind = "added", !.gsi = loc[t].gsi]
                 ELSE history
  /\ UNCHANGED << mgmtVars, gsi_routing_table_, next_gsi_, kernel_table, constructed,
                  panic, ioVars, calls >>

-----------------------------------------------------------------------------
(* DeviceManager::UpdateGsiRoutingTable                                    *)

\* uint8_t buffer[... * gsi_routing_table_.size()]: the size is read with
\* no lock held.
UpdateGsiRoutingTable_alloc(t) ==
  /\ Alive /\ pc[t] = "ugrt_alloc"
  /\ loc' = [loc EXCEPT ![t].cap = Len(gsi_routing_table_)]
  /\ pc' = [pc EXCEPT ![t] = "ugrt_copy"]
  /\ UNCHANGED << mgmtVars, gsiVars, ioVars, calls >>

\* mutex_.lock(); table->nr = size(); std::copy(...); mutex_.unlock();
\* When the mirror has grown since the buffer was sized, std::copy writes
\* past the end of buffer: undefined behaviour.
UpdateGsiRoutingTable_copy(t) ==
  /\ Alive /\ pc[t] = "ugrt_copy" /\ Lockable(t)
  /\ loc' = [loc EXCEPT ![t].buffer = gsi_routing_table_]
  /\ ub' = (ub \/ Len(gsi_routing_table_) > loc[t].cap)
  /\ pc' = [pc EXCEPT ![t] = "ugrt_ioctl"]
  /\ UNCHANGED << mgmtVars, gsiVars, pio_handlers_, mmio_handlers_, mutex_,
                  calls >>

\* A word no caller passes: what a later store to the frame leaves in an
\* entry that lies past the end of buffer.
ClobberedWord == 9 * 1

\* The tables the ioctl can read from a buffer sized for cap entries into
\* which the sequence copied was written.  Entries within the buffer are
\* as copied; an entry written past its end lies in the rest of the frame,
\* where it is either still as copied or has had a word overwritten.
Handed(copied, cap) ==
  { copied } \cup
  { [copied EXCEPT ![k].w2 = ClobberedWord] : k \in (cap + 1)..Len(copied) }

\* ioctl(vm_fd_, KVM_SET_GSI_ROUTING, table): the kernel replaces its table.
\* After a copy that ran past the buffer the frame above it is overwritten
\* (undefined behaviour): the table reaches the kernel as copied, or it
\* reaches it with an overrun entry changed, or the call fails and MV_PANIC
\* ends the process.
UpdateGsiRoutingTable_ioctl(t) ==
  /\ Alive /\ pc[t] = "ugrt_ioctl"
  /\ \/ /\ kernel_table' \in Handed(loc[t].buffer, loc[t].cap)
        /\ pc' = [pc EXCEPT ![t] = IF loc[t].op = "add" THEN "add_irqfd"
                                   ELSE "idle"]
        /\ loc' = [loc EXCEPT ![t] = IF loc[t].op = "add"
                                     THEN [loc[t] EXCEPT !.buffer = << >>,
                                                         !.cap = 0]
                                     ELSE NoLocals]
        /\ history' = IF loc[t].op = "update" /\ history.kind = "removing"
                       THEN [history EXCEPT !.kind = "removed"]
                       ELSE history
        /\ panic' = panic
     \/ /\ Len(loc[t].buffer) > loc[t].cap
        /\ panic' = MV_PANIC
        /\ pc' = [pc EXCEPT ![t] = "panic"]
        /\ UNCHANGED << kernel_table, loc, history >>
  /\ UNCHANGED << mgmtVars, gsi_routing_table_, next_gsi_, kernel_irqfds,
                  constructed, ret_log, ioVars, calls >>

-----------------------------------------------------------------------------
(* DeviceManager::UpdateMsiRoute: the region under the mutex.              *)

\* The two address words stored the wrong way round.
SetMsi_Swapped(entry, address, data) ==
  [entry EXCEPT !.w0 = address_hi(address),
                !.w1 = address_lo(address),
                !.w2 = data]

\* it->u.msi = {address_lo, address_hi, data}
SetMsi(entry, address, data) ==
  [entry EXCEPT !.w0 = address_lo(address),
                !.w1 = address_hi(address),
                !.w2 = data]

\* The entry while it->u.msi is being assigned: the address words of new
\* are stored, the data word is still the one of old.
TornMsi(old, new) == [new EXCEPT !.w2 = old.w2]

\* mutex_.lock(), the find_if, and then the MV_PANIC, or the removal and
\* mutex_.unlock(), or the first part of the assignment to it->u.msi, after
\* which the thread still holds the mutex.
UpdateMsiRoute(t, gsi, address, data, trigger_fd) ==
  /\ constructed /\ Alive /\ Idle(t) /\ Lockable(t)
  /\ calls < MaxCalls
  /\ calls' = calls + 1
  /\ LET it == FindGsi(gsi_routing_table_, gsi) IN
     IF it = 0
     THEN \* MV_PANIC("not found gsi=%d", gsi)
          /\ panic' = MV_PANIC
          /\ pc' = [pc EXCEPT ![t] = "panic"]
          /\ loc' = [loc EXCEPT ![t] = [NoLocals EXCEPT !.op = "update",
                                                       !.gsi = gsi,
                                                       !.address = address,
                                                       !.data = data,
                                                       !.fd = trigger_fd]]
          /\ UNCHANGED << gsi_routing_table_, kernel_irqfds, mutex_ >>
     ELSE /\ panic' = panic
          /\ loc' = [loc EXCEPT ![t] = [NoLocals EXCEPT !.op = "update",
                                                       !.gsi = gsi,
                                                       !.address = address,
                                                       !.data = data,
                                                       !.fd = trigger_fd,
                                                       !.it_count = it - 1]]
          /\ IF AddressIsZero(address)
             THEN \* deassign the irqfd and remove from table
                  /\ kernel_irqfds' =
                       IF trigger_fd # -1
                       THEN kernel_irqfds \ { <<trigger_fd, gsi>> }
                       ELSE kernel_irqfds
                  /\ gsi_routing_table_' = EraseAt(gsi_routing_table_, it)
                  /\ pc' = [pc EXCEPT ![t] = "ugrt_alloc"]
                  /\ mutex_' = mutex_
             ELSE \* update entry: the address words
                  /\ gsi_routing_table_' =
                       [gsi_routing_table_ EXCEPT
                          ![it] = TornMsi(@, SetMsi(@, address, data))]
                  /\ kernel_irqfds' = kernel_irqfds
                  /\ pc' = [pc EXCEPT ![t] = "upd_store"]
                  /\ mutex_' = t
  /\ history' = IF /\ history.kind = "added"
                    /\ history.gsi = gsi
                    /\ history.fd = trigger_fd
                    /\ AddressIsZero(address)
                 THEN [history EXCEPT !.kind = "removing"]
                 ELSE OtherHistory
  /\ UNCHANGED << mgmtVars, next_gsi_, kernel_table, constructed, ret_log,
                  pio_handlers_, mmio_handlers_, ub >>

\* The rest of the assignment to it->u.msi, the KVM_IRQFD assign and
\* mutex_.unlock().
UpdateMsiRoute_store(t) ==
  /\ Alive /\ pc[t] = "upd_store" /\ mutex_ = t
  /\ gsi_routing_table_' =
       [gsi_routing_table_ EXCEPT
          ![loc[t].it_count + 1] = SetMsi(@, loc[t].address, loc[t].data)]
  /\ kernel_irqfds' =
       IF loc[t].fd # -1
       THEN kernel_irqfds \cup { <<loc[t].fd, loc[t].gsi>> }
       ELSE kernel_irqfds
  /\ mutex_' = NoThread
  /\ pc' = [pc EXCEPT ![t] = "ugrt_alloc"]
  /\ UNCHANGED << mgmtVars, next_gsi_, kernel_table, constructed, panic,
                  ret_log, history, pio_handlers_, mmio_handlers_, ub, loc,
                  calls >>

-----------------------------------------------------------------------------
(* The GSI specification: the constructor, then threads calling            *)
(* AddMsiRoute and UpdateMsiRoute in any interleaving.                     *)

\* vcpus_: the vCPUs CreateVcpu made.
Vcpus == {0, 1}

\* No event registered, the machine valid, nothing kicked or stopped.
InitEvents ==
  /\ ioevents_ = {}
  /\ kernel_ioeventfds = {}
  /\ polled_fds = {}
  /\ open_fds = {}
  /\ io_trace = << >>
  /\ event_log = << >>

\* The objects the configuration created, system-root among them; image
\* tells what RawImage the deletion of the object destroys: none, one opened
\* for writing, one opened read-only, or one whose fd_ is still -1.
SystemRoot == [name |-> "system-root", image |-> "none"]

ConfigObjects ==
  { SystemRoot,
    [name |-> "disk0", image |-> "writable"],
    [name |-> "cdrom0", image |-> "readonly"],
    [name |-> "disk1", image |-> "unopened"] }

InitMachine ==
  /\ valid_ = TRUE
  /\ kicks = [v \in Vcpus |-> 0]
  /\ io_stops = 0
  /\ objects_ = ConfigObjects
  /\ destroyed = << >>
  /\ io_requests = << >>

InitGsi ==
  /\ gsi_routing_table_ = << >>
  /\ next_gsi_ = 0
  /\ kernel_table = << >>
  /\ kernel_irqfds = {}
  /\ constructed = FALSE
  /\ panic = FALSE
  /\ ub = FALSE
  /\ pio_handlers_ = << >>
  /\ mmio_handlers_ = << >>
  /\ mutex_ = NoThread
  /\ pc = [t \in Threads |-> "idle"]
  /\ loc = [t \in Threads |-> NoLocals]
  /\ ret_log = << >>
  /\ calls = 0
  /\ history = NoHistory
  /\ registered_devices_ = {}
  /\ InitEvents
  /\ InitMachine

\* The steps of thread t inside a call it has started.
GsiInner(t) ==
  \/ AddMsiRoute_store(t)
  \/ AddMsiRoute_push(t)
  \/ AddMsiRoute_irqfd(t)
  \/ UpdateGsiRoutingTable_alloc(t)
  \/ UpdateGsiRoutingTable_copy(t)
  \/ UpdateGsiRoutingTable_ioctl(t)
  \/ UpdateMsiRoute_store(t)

NextGsi ==
  \/ SetupGsiRoutingTable
  \/ \E t \in Threads :
       \/ \E a \in ConcAddAddresses, d \in DataValues, fd \in TriggerFds :
            AddMsiRoute_load(t, a, d, fd)
       \/ \E g \in ConcGsiArgs, a \in ConcUpdAddresses, d \in DataValues,
               fd \in TriggerFds :
            UpdateMsiRoute(t, g, a, d, fd)
       \/ GsiInner(t)

SpecGsi == InitGsi /\ [][NextGsi]_vars

(* The same operations called one at a time: a call starts only when no    *)
(* other thread is inside one.  The inputs are the full sets.              *)
OthersIdle(t) == \A u \in Threads \ {t} : Idle(u)

NextGsiSeq ==
  \/ SetupGsiRoutingTable
  \/ \E t \in Threads :
       \/ \E a \in Addresses, d \in DataValues, fd \in TriggerFds :
            OthersIdle(t) /\ AddMsiRoute_load(t, a, d, fd)
       \/ \E g \in GsiArgs, a \in Addresses, d \in DataValues,
               fd \in TriggerFds :
            OthersIdle(t) /\ UpdateMsiRoute(t, g, a, d, fd)
       \/ GsiInner(t)

SpecGsiSeq == InitGsi /\ [][NextGsiSeq]_vars

-----------------------------------------------------------------------------
(* The handler tables and the inputs of the dispatchers                    *)

PioResource(base, length) == [type |-> "PIO", base |-> base, length |-> length]

MmioResource(base, length) ==
  [type |-> "MMIO", base |-> base, length |-> length]

IoHandler(resource, device) == [resource |-> resource, device |-> device]

\* The tables after the devices have connected: ranges that overlap
\* (ports 1 and 5), a gap (port 4), and a last port (7) past every range.
InitialPioHandlers ==
  << IoHandler(PioResource(0, 2), "d1"),
     IoHandler(PioResource(1, 2), "d2"),
     IoHandler(PioResource(3, 1), "d1"),
     IoHandler(PioResource(5, 1), "d2"),
     IoHandler(PioResource(5, 2), "d3") >>

InitialMmioHandlers ==
  << IoHandler(MmioResource(0, 2), "d1"),
     IoHandler(MmioResource(1, 2), "d2"),
     IoHandler(MmioResource(3, 1), "d3"),
     IoHandler(MmioResource(5, 1), "d2") >>

Ports == 0..7

MmioAddresses == 0..6

\* uint16_t size
Sizes == {1, 2}

\* The byte the caller's buffer holds in every place before the call.
CallerByte == 17

\* The byte a device's Read stores in every place it fills.
DeviceByte == 90

\* The caller's buffer: count accesses of size bytes, and room for one
\* access when count is 0.
CallerBuffer(size, count) ==
  [k \in 1..(size * (IF count = 0 THEN 1 ELSE count)) |-> CallerByte]

-----------------------------------------------------------------------------
(* The lookup of HandleIo and HandleMmio                                   *)

\* The range test with the end included.
Matches_Inclusive(resource, address) ==
  address >= resource.base /\ address <= resource.base + resource.length

\* port >= resource->base && port < resource->base + resource->length
Matches(resource, address) ==
  address >= resource.base /\ address < resource.base + resource.length

\* The for loop over the table: the it_count at which it stops (0-based),
\* -1 when it reaches end().
RECURSIVE ScanFrom(_, _, _)
ScanFrom(table, address, it_count) ==
  IF it_count >= Len(table) THEN -1
  ELSE IF Matches(table[it_count + 1].resource, address) THEN it_count
  ELSE ScanFrom(table, address, it_count + 1)

Scan(table, address) == ScanFrom(table, address, 0)

\* handlers.push_front(*it)
PushFront(table, handler) == << handler >> \o table

\* handlers.push_front(*it); handlers.erase(it).  push_front invalidates
\* every iterator of a deque, so erase(it) has undefined behaviour: it
\* removes the element it pointed at (now at 0-based it_count + 1), or some
\* other element of the deque.  Each outcome is <<table, went wrong>>.
PromoteOutcomes(table, it_count) ==
  LET pushed == PushFront(table, table[it_count + 1]) IN
    { << EraseAt(pushed, k), k # it_count + 2 >> : k \in 1..Len(pushed) }

\* The outcomes of the locked region: the table is left alone unless the
\* match is at it_count >= 3.
LookupOutcomes(table, address) ==
  LET it_count == Scan(table, address) IN
    IF it_count >= 3 THEN PromoteOutcomes(table, it_count)
    ELSE { << table, FALSE >> }

MatchedHandler(table, address) ==
  LET it_count == Scan(table, address) IN
    IF it_count = -1 THEN NoHandler ELSE table[it_count + 1]

\* ptr after i iterations of ptr += size, as an offset from data.
BufferPos_NoStride(i, size) == i

BufferPos(i, size) == i * size

\* The arguments of one device->Read or device->Write.
DeviceCall(l) ==
  [device |-> l.handler.device,
   resource |-> l.handler.resource,
   offset |-> l.port - l.handler.resource.base,
   pos |-> BufferPos(l.i, l.size),
   size |-> l.size,
   is_write |-> l.is_write]

\* The buffer after the call: a Read fills size bytes from pos on.
BytesAfterCall(l) ==
  IF l.is_write THEN l.bytes
  ELSE [k \in 1..Len(l.bytes) |->
          IF k > BufferPos(l.i, l.size) /\ k <= BufferPos(l.i, l.size) + l.size
          THEN DeviceByte ELSE l.bytes[k]]

\* memset(data, 0xFF, size)
Memset(bytes, size) ==
  [k \in 1..Len(bytes) |-> IF k <= size THEN 255 ELSE bytes[k]]

-----------------------------------------------------------------------------
(* DeviceManager::HandleIo                                                 *)

\* mutex_.lock() and the for loop up to the match, with the promotion.
HandleIo_lookup(t, port, size, is_write, count) ==
  /\ constructed /\ Alive /\ Idle(t) /\ mutex_ = NoThread
  /\ calls < MaxCalls
  /\ calls' = calls + 1
  /\ \E outcome \in LookupOutcomes(pio_handlers_, port) :
       /\ pio_handlers_' = outcome[1]
       /\ ub' = (ub \/ outcome[2])
  /\ mutex_' = t
  /\ pc' = [pc EXCEPT ![t] = "io_unlock"]
  /\ loc' = [loc EXCEPT ![t] =
       [NoLocals EXCEPT !.op = "pio", !.port = port, !.size = size,
                        !.is_write = is_write, !.count = count,
                        !.bytes = CallerBuffer(size, count),
                        !.it_count = Scan(pio_handlers_, port),
                        !.handler = MatchedHandler(pio_handlers_, port)]]
  /\ UNCHANGED << mgmtVars, gsiVars, mmio_handlers_ >>

\* mutex_.unlock(), on the match or after the loop.
HandleIo_unlock(t) ==
  /\ Alive /\ pc[t] = "io_unlock" /\ loc[t].op = "pio" /\ mutex_ = t
  /\ mutex_' = Unlock(mutex_, t)
  /\ pc' = [pc EXCEPT ![t] = IF loc[t].it_count = -1 THEN "io_miss"
                             ELSE IF loc[t].count = 0 THEN "io_ret"
                             ELSE "io_call"]
  /\ loc' = [loc EXCEPT ![t].unlocks = @ + 1]
  /\ UNCHANGED << mgmtVars, gsiVars, pio_handlers_, mmio_handlers_, ub, calls >>

\* One iteration of for (i = 0; i < count; i++): the device call and
\* ptr += size.
HandleIo_call(t) ==
  /\ Alive /\ pc[t] = "io_call" /\ loc[t].op = "pio"
  /\ loc[t].i < loc[t].count
  /\ loc' = [loc EXCEPT ![t].log = Append(@, DeviceCall(loc[t])),
                        ![t].bytes = BytesAfterCall(loc[t]),
                        ![t].i = @ + 1]
  /\ pc' = [pc EXCEPT ![t] = IF loc[t].i + 1 < loc[t].count THEN "io_call"
                             ELSE "io_ret"]
  /\ UNCHANGED << mgmtVars, gsiVars, ioVars, calls >>

\* No handler matched: memset(data, 0xFF, size).
HandleIo_miss(t) ==
  /\ Alive /\ pc[t] = "io_miss" /\ loc[t].op = "pio"
  /\ loc' = [loc EXCEPT ![t].bytes = Memset(@, loc[t].size)]
  /\ pc' = [pc EXCEPT ![t] = "io_ret"]
  /\ UNCHANGED << mgmtVars, gsiVars, ioVars, calls >>

HandleIo_return(t) ==
  /\ Alive /\ pc[t] = "io_ret" /\ loc[t].op = "pio"
  /\ pc' = [pc EXCEPT ![t] = "idle"]
  /\ loc' = [loc EXCEPT ![t] = NoLocals]
  /\ UNCHANGED << mgmtVars, gsiVars, ioVars, calls >>

-----------------------------------------------------------------------------
(* DeviceManager::HandleMmio                                               *)

HandleMmio_lookup(t, base, size, is_write) ==
  /\ constructed /\ Alive /\ Idle(t) /\ mutex_ = NoThread
  /\ calls < MaxCalls
  /\ calls' = calls + 1
  /\ \E outcome \in LookupOutcomes(mmio_handlers_, base) :
       /\ mmio_handlers_' = outcome[1]
       /\ ub' = (ub \/ outcome[2])
  /\ mutex_' = t
  /\ pc' = [pc EXCEPT ![t] = "io_unlock"]
  /\ loc' = [loc EXCEPT ![t] =
       [NoLocals EXCEPT !.op = "mmio", !.port = base, !.size = size,
                        !.is_write = is_write, !.count = 1,
                        !.bytes = CallerBuffer(size, 1),
                        !.it_count = Scan(mmio_handlers_, base),
                        !.handler = MatchedHandler(mmio_handlers_, base)]]
  /\ UNCHANGED << mgmtVars, gsiVars, pio_handlers_ >>

\* The device call made whether or not the loop found a handler.
MmioAfterUnlock_CallAnyway(it_count) == "io_call"

\* Where HandleMmio goes on from its mutex_.unlock(): to the device call
\* on a match; after the loop there is nothing left to do but return.
MmioAfterUnlock(it_count) == IF it_count = -1 THEN "io_ret" ELSE "io_call"

\* mutex_.unlock(), on the match or after the loop.
HandleMmio_unlock(t) ==
  /\ Alive /\ pc[t] = "io_unlock" /\ loc[t].op = "mmio" /\ mutex_ = t
  /\ mutex_' = Unlock(mutex_, t)
  /\ pc' = [pc EXCEPT ![t] = MmioAfterUnlock(loc[t].it_count)]
  /\ loc' = [loc EXCEPT ![t].unlocks = @ + 1]
  /\ UNCHANGED << mgmtVars, gsiVars, pio_handlers_, mmio_handlers_, ub, calls >>

\* The one device->Write or device->Read.
HandleMmio_call(t) ==
  /\ Alive /\ pc[t] = "io_call" /\ loc[t].op = "mmio"
  /\ loc' = [loc EXCEPT ![t].log = Append(@, DeviceCall(loc[t])),
                        ![t].bytes = BytesAfterCall(loc[t]),
                        ![t].i = @ + 1]
  /\ pc' = [pc EXCEPT ![t] = "io_ret"]
  /\ UNCHANGED << mgmtVars, gsiVars, ioVars, calls >>

HandleMmio_return(t) ==
  /\ Alive /\ pc[t] = "io_ret" /\ loc[t].op = "mmio"
  /\ pc' = [pc EXCEPT ![t] = "idle"]
  /\ loc' = [loc EXCEPT ![t] = NoLocals]
  /\ UNCHANGED << mgmtVars, gsiVars, ioVars, calls >>

-----------------------------------------------------------------------------
(* The dispatch specification: the manager as its constructor leaves it,   *)
(* then threads calling HandleIo and HandleMmio.                           *)

InitIo ==
  /\ gsi_routing_table_ = SetupTable
  /\ next_gsi_ = FirstMsiGsi
  /\ kernel_table = SetupTable
  /\ kernel_irqfds = {}
  /\ constructed = TRUE
  /\ panic = FALSE
  /\ ub = FALSE
  /\ pio_handlers_ = InitialPioHandlers
  /\ mmio_handlers_ = InitialMmioHandlers
  /\ mutex_ = NoThread
  /\ pc = [t \in Threads |-> "idle"]
  /\ loc = [t \in Threads |-> NoLocals]
  /\ ret_log = << >>
  /\ calls = 0
  /\ history = NoHistory
  /\ registered_devices_ = { h.device : h \in Range(InitialPioHandlers) \cup Range(InitialMmioHandlers) }
  /\ InitEvents
  /\ InitMachine

\* The steps of thread t inside a dispatch it has started.
IoInner(t) ==
  \/ HandleIo_unlock(t)
  \/ HandleIo_call(t)
  \/ HandleIo_miss(t)
  \/ HandleIo_return(t)
  \/ HandleMmio_unlock(t)
  \/ HandleMmio_call(t)
  \/ HandleMmio_return(t)

\* Dispatches made one at a time, with the full inputs.
NextIoSeq ==
  \E t \in Threads :
    \/ \E port \in Ports, size \in Sizes, is_write \in BOOLEAN,
          count \in 0..MaxCount :
         OthersIdle(t) /\ HandleIo_lookup(t, port, size, is_write, count)
    \/ \E base \in MmioAddresses, size \in Sizes, is_write \in BOOLEAN :
         OthersIdle(t) /\ HandleMmio_lookup(t, base, size, is_write)
    \/ IoInner(t)

SpecIoSeq == InitIo /\ [][NextIoSeq]_vars

\* Dispatches made by the threads at once: a match at index 0 (0), a miss
\* (4) and a match at index 3 (5) in each table.
ConcPorts == {0, 4, 5}

ConcCounts == {0, 2}

NextIo ==
  \E t \in Threads :
    \/ \E port \in ConcPorts, count \in ConcCounts :
         HandleIo_lookup(t, port, 1, FALSE, count)
    \/ \E base \in ConcPorts : HandleMmio_lookup(t, base, 1, FALSE)
    \/ IoInner(t)

SpecIo == InitIo /\ [][NextIo]_vars

-----------------------------------------------------------------------------
(* Registration of devices and of their I/O handlers                       *)

\* d1 is a plain device; p1 and p2 are PCI devices configured at the same
\* bus and function.
Devices == {"d1", "p1", "p2"}

\* dynamic_cast<PciDevice*>(device)
IsPci(device) == device \in {"p1", "p2"}

\* << bus_, devfn_ >>
PciAddress(device) == << 0, 8 >>

\* for (auto device : registered_devices_) ... bus_ == bus && devfn_ == devfn
LookupPciDevice(devices, address) ==
  \E device \in devices : IsPci(device) /\ PciAddress(device) = address

RamResource(base, length) == [type |-> "RAM", base |-> base, length |-> length]

\* The resources handed to RegisterIoHandler and UnregisterIoHandler: two
\* port ranges with the same base, an MMIO range and a RAM range.
Resources ==
  { PioResource(0, 2), PioResource(0, 1), MmioResource(0, 2),
    RamResource(0, 2) }

\* handlers.push_back(new IoHandler { .resource, .device })
PushBack(table, device, resource) == Append(table, IoHandler(resource, device))

\* The for loop of UnregisterIoHandler: the index of the first entry with
\* the device and the resource's base, 0 when it reaches end().
FindHandler(table, device, resource) ==
  IF \E k \in 1..Len(table) :
       table[k].device = device /\ table[k].resource.base = resource.base
  THEN CHOOSE k \in 1..Len(table) :
         /\ table[k].device = device /\ table[k].resource.base = resource.base
         /\ \A j \in 1..(k - 1) :
              ~(table[j].device = device
                /\ table[j].resource.base = resource.base)
  ELSE 0

\* delete *it; handlers.erase(it); break;
EraseHandler(table, device, resource) ==
  LET k == FindHandler(table, device, resource) IN
    IF k = 0 THEN table ELSE EraseAt(table, k)

\* The tables after RegisterIoHandler(device, resource), as
\* << pio_handlers_, mmio_handlers_ >>.
Registered(pio, mmio, device, resource) ==
  IF resource.type = "PIO" THEN << PushBack(pio, device, resource), mmio >>
  ELSE IF resource.type = "MMIO"
  THEN << pio, PushBack(mmio, device, resource) >>
  ELSE << pio, mmio >>

\* The tables after UnregisterIoHandler(device, resource).
Unregistered(pio, mmio, device, resource) ==
  IF resource.type = "PIO" THEN << EraseHandler(pio, device, resource), mmio >>
  ELSE IF resource.type = "MMIO"
  THEN << pio, EraseHandler(mmio, device, resource) >>
  ELSE << pio, mmio >>

\* RegisterDevice up to the insert: the devfn check, made with no lock
\* held.  A PCI device whose bus and function are taken ends in MV_PANIC.
RegisterDevice_lookup(t, device) ==
  /\ constructed /\ Alive /\ Idle(t)
  /\ calls < MaxCalls
  /\ calls' = calls + 1
  /\ IF IsPci(device)
        /\ LookupPciDevice(registered_devices_, PciAddress(device))
     THEN /\ panic' = MV_PANIC
          /\ pc' = [pc EXCEPT ![t] = "panic"]
          /\ loc' = [loc EXCEPT ![t] = [NoLocals EXCEPT !.op = "regdev",
                                                       !.device = device]]
     ELSE /\ panic' = panic
          /\ pc' = [pc EXCEPT ![t] = "regdev_insert"]
          /\ loc' = [loc EXCEPT ![t] = [NoLocals EXCEPT !.op = "regdev",
                                                       !.device = device]]
  /\ UNCHANGED << gsi_routing_table_, next_gsi_, kernel_table, kernel_irqfds,
                  constructed, ret_log, history, ioVars, mgmtVars >>

\* registered_devices_.insert(device), with no lock held.
RegisterDevice_insert(t) ==
  /\ Alive /\ pc[t] = "regdev_insert"
  /\ registered_devices_' = registered_devices_ \cup { loc[t].device }
  /\ pc' = [pc EXCEPT ![t] = "idle"]
  /\ loc' = [loc EXCEPT ![t] = NoLocals]
  /\ UNCHANGED << gsiVars, ioVars, eventVars, machineVars, calls >>

\* registered_devices_.erase(device), with no lock held.
UnregisterDevice(t, device) ==
  /\ constructed /\ Alive /\ Idle(t)
  /\ calls < MaxCalls
  /\ calls' = calls + 1
  /\ registered_devices_' = registered_devices_ \ { device }
  /\ UNCHANGED << gsiVars, ioVars, eventVars, machineVars, pc, loc >>

\* history of the handler calls: "registered" after RegisterIoHandler
\* (table is the pair of tables before it, calls the number of calls started
\* up to it), "unregistered" after an UnregisterIoHandler of the same device
\* and resource that is the very next call, "unregistered_alone" after any
\* other UnregisterIoHandler.
FollowsRegister(device, resource) ==
  /\ history.kind = "registered"
  /\ history.device = device
  /\ history.resource = resource
  /\ history.calls = calls

\* RegisterIoHandler, the whole of it under the lock_guard.
RegisterIoHandler(t, device, resource) ==
  /\ constructed /\ Alive /\ Idle(t) /\ mutex_ = NoThread
  /\ calls < MaxCalls
  /\ calls' = calls + 1
  /\ pio_handlers_' =
       Registered(pio_handlers_, mmio_handlers_, device, resource)[1]
  /\ mmio_handlers_' =
       Registered(pio_handlers_, mmio_handlers_, device, resource)[2]
  /\ history' = [kind |-> "registered",
                 table |-> << pio_handlers_, mmio_handlers_ >>,
                 device |-> device, resource |-> resource,
                 calls |-> calls + 1]
  /\ UNCHANGED << gsi_routing_table_, next_gsi_, kernel_table, kernel_irqfds,
                  constructed, panic, ret_log, mgmtVars, mutex_, ub, pc, loc >>

\* UnregisterIoHandler, the whole of it under the lock_guard.
UnregisterIoHandler(t, device, resource) ==
  /\ constructed /\ Alive /\ Idle(t) /\ mutex_ = NoThread
  /\ calls < MaxCalls
  /\ calls' = calls + 1
  /\ pio_handlers_' =
       Unregistered(pio_handlers_, mmio_handlers_, device, resource)[1]
  /\ mmio_handlers_' =
       Unregistered(pio_handlers_, mmio_handlers_, device, resource)[2]
  /\ history' = [kind |-> IF FollowsRegister(device, resource)
                          THEN "unregistered" ELSE "unregistered_alone",
                 table |-> IF FollowsRegister(device, resource)
                           THEN history.table ELSE << >>,
                 device |-> device, resource |-> resource,
                 calls |-> calls + 1]
  /\ UNCHANGED << gsi_routing_table_, next_gsi_, kernel_table, kernel_irqfds,
                  constructed, panic, ret_log, mgmtVars, mutex_, ub, pc, loc >>

(* The registration specification: the manager as its constructor has it   *)
(* before root_->Connect(), then threads registering and unregistering     *)
(* devices and handlers and dispatching accesses.                          *)

InitReg ==
  /\ gsi_routing_table_ = SetupTable
  /\ next_gsi_ = FirstMsiGsi
  /\ kernel_table = SetupTable
  /\ kernel_irqfds = {}
  /\ constructed = TRUE
  /\ panic = FALSE
  /\ ub = FALSE
  /\ pio_handlers_ = << >>
  /\ mmio_handlers_ = << >>
  /\ mutex_ = NoThread
  /\ pc = [t \in Threads |-> "idle"]
  /\ loc = [t \in Threads |-> NoLocals]
  /\ ret_log = << >>
  /\ calls = 0
  /\ history = NoHistory
  /\ registered_devices_ = {}
  /\ InitEvents
  /\ InitMachine

\* The accesses dispatched while handlers come and go.
RegPorts == {0, 1}

RegSizes == {1}

RegDevices == {"d1", "p1"}

NextReg ==
  \E t \in Threads :
    \/ \E device \in Devices : RegisterDevice_lookup(t, device)
    \/ RegisterDevice_insert(t)
    \/ \E device \in Devices : UnregisterDevice(t, device)
    \/ \E device \in RegDevices, resource \in Resources :
         RegisterIoHandler(t, device, resource)
    \/ \E device \in RegDevices, resource \in Resources :
         UnregisterIoHandler(t, device, resource)
    \/ \E port \in RegPorts, size \in RegSizes :
         HandleIo_lookup(t, port, size, FALSE, 1)
    \/ \E base \in RegPorts, size \in RegSizes :
         HandleMmio_lookup(t, base, size, FALSE)
    \/ IoInner(t)

SpecReg == InitReg /\ [][NextReg]_vars

-----------------------------------------------------------------------------
(* DeviceManager::RegisterIoEvent and UnregisterIoEvent                    *)

\* The descriptors eventfd() can hand out; -1 when all are in use.
Fds == {10, 11}

Eventfd(open) ==
  IF Fds \ open = {} THEN -1
  ELSE CHOOSE fd \in Fds \ open : \A other \in Fds \ open : fd <= other

\* new IoEvent { ... }, with the type and the PIO flag set from type.
NewIoEvent(device, type, address, length, datamatch, fd) ==
  [type |-> IF type = "PIO" THEN "kIoEventPio" ELSE "kIoEventMmio",
   device |-> device,
   address |-> address,
   length |-> length,
   datamatch |-> datamatch,
   flags |-> (IF length # 0 THEN {"DATAMATCH"} ELSE {})
               \cup (IF type = "PIO" THEN {"PIO"} ELSE {}),
   fd |-> fd]

\* struct kvm_ioeventfd filled from the event.
KvmIoeventfd(event, flags) ==
  [datamatch |-> event.datamatch, addr |-> event.address,
   len |-> event.length, fd |-> event.fd, flags |-> flags]

\* The binding a KVM_IOEVENTFD deassign removes: the one assigned with the
\* same fields.
Assigned(kvm_ioevent) ==
  [kvm_ioevent EXCEPT !.flags = @ \ {"DEASSIGN"}]

\* ioctl(KVM_IOEVENTFD) to assign: it fails on a bad fd and on a binding
\* that is there already.
AssignFails(bindings, kvm_ioevent) ==
  \/ kvm_ioevent.fd = -1
  \/ \E b \in bindings :
       /\ b.addr = kvm_ioevent.addr /\ b.len = kvm_ioevent.len
       /\ b.datamatch = kvm_ioevent.datamatch
       /\ b.flags = kvm_ioevent.flags

\* ioctl(KVM_IOEVENTFD) to deassign: it fails when there is no such binding.
DeassignFails(bindings, kvm_ioevent) == Assigned(kvm_ioevent) \notin bindings

\* What io_trace records.
StopPollingDone(fd) == [op |-> "StopPolling", fd |-> fd]

DeassignDone(kvm_ioevent) == [op |-> "KVM_IOEVENTFD", arg |-> kvm_ioevent]

EraseDone(event) == [op |-> "erase", event |-> event]

DeleteDone(event) == [op |-> "delete", event |-> event]

\* RegisterIoEvent up to the ioctl: new IoEvent with a fresh eventfd, and
\* the KVM_IOEVENTFD assign; no lock is held.
RegisterIoEvent_assign(t, device, type, address, length, datamatch) ==
  /\ constructed /\ Alive /\ Idle(t)
  /\ calls < MaxCalls
  /\ calls' = calls + 1
  /\ LET fd == Eventfd(open_fds)
         event == NewIoEvent(device, type, address, length, datamatch, fd)
         kvm_ioevent == KvmIoeventfd(event, event.flags)
     IN  /\ open_fds' = IF fd = -1 THEN open_fds ELSE open_fds \cup {fd}
         /\ loc' = [loc EXCEPT ![t] = [NoLocals EXCEPT !.op = "regev",
                                                      !.event = event]]
         /\ IF AssignFails(kernel_ioeventfds, kvm_ioevent)
            THEN /\ panic' = MV_PANIC
                 /\ pc' = [pc EXCEPT ![t] = "panic"]
                 /\ UNCHANGED kernel_ioeventfds
            ELSE /\ panic' = panic
                 /\ pc' = [pc EXCEPT ![t] = "regev_poll"]
                 /\ kernel_ioeventfds' = kernel_ioeventfds \cup {kvm_ioevent}
  /\ history' = [kind |-> "ev_registering", events |-> ioevents_,
                 calls |-> calls + 1]
  /\ UNCHANGED << gsi_routing_table_, next_gsi_, kernel_table, kernel_irqfds,
                  constructed, ret_log, ioVars, registered_devices_,
                  ioevents_, polled_fds, io_trace, event_log, machineVars >>

\* io()->StartPolling(event->fd, EPOLLIN, callback)
RegisterIoEvent_poll(t) ==
  /\ Alive /\ pc[t] = "regev_poll"
  /\ polled_fds' = polled_fds \cup { loc[t].event.fd }
  /\ pc' = [pc EXCEPT ![t] = "regev_insert"]
  /\ UNCHANGED << gsiVars, ioVars, registered_devices_, ioevents_,
                  kernel_ioeventfds, open_fds, io_trace, event_log, machineVars,
                  loc,
                  calls >>

\* lock_guard; ioevents_.insert(event); return event;
RegisterIoEvent_insert(t) ==
  /\ Alive /\ pc[t] = "regev_insert" /\ mutex_ = NoThread
  /\ ioevents_' = ioevents_ \cup { loc[t].event }
  /\ history' = IF history.kind = "ev_registering"
                 THEN [kind |-> "ev_registered", events |-> history.events,
                       event |-> loc[t].event, calls |-> history.calls]
                 ELSE OtherHistory
  /\ pc' = [pc EXCEPT ![t] = "idle"]
  /\ loc' = [loc EXCEPT ![t] = NoLocals]
  /\ UNCHANGED << gsi_routing_table_, next_gsi_, kernel_table, kernel_irqfds,
                  constructed, panic, ret_log, ioVars, registered_devices_,
                  kernel_ioeventfds, polled_fds, open_fds, io_trace,
                  event_log, machineVars, calls >>

\* The entry of UnregisterIoEvent(IoEvent* event).
UnregisterIoEvent_call(t, event) ==
  /\ constructed /\ Alive /\ Idle(t)
  /\ calls < MaxCalls
  /\ calls' = calls + 1
  /\ pc' = [pc EXCEPT ![t] = "unev_stop"]
  /\ loc' = [loc EXCEPT ![t] = [NoLocals EXCEPT !.op = "unev",
                                               !.event = event]]
  /\ io_trace' = << >>
  /\ history' = IF /\ history.kind = "ev_registered"
                    /\ history.event = event
                    /\ history.calls = calls
                 THEN [history EXCEPT !.kind = "ev_unregistering"]
                 ELSE OtherHistory
  /\ UNCHANGED << gsi_routing_table_, next_gsi_, kernel_table, kernel_irqfds,
                  constructed, panic, ret_log, ioVars, registered_devices_,
                  ioevents_, kernel_ioeventfds, polled_fds, open_fds,
                  event_log, machineVars >>

\* UnregisterIoEvent(device, type, address): the find_if under the mutex,
\* then UnregisterIoEvent(event) with the event found, or the return.  The
\* set is ordered by pointer, so any matching event can be the first.
UnregisterIoEvent_find(t, device, type, address) ==
  /\ constructed /\ Alive /\ Idle(t) /\ mutex_ = NoThread
  /\ calls < MaxCalls
  /\ calls' = calls + 1
  /\ LET found == { e \in ioevents_ :
                      /\ e.device = device /\ e.address = address
                      /\ (type = "PIO") = ("PIO" \in e.flags) }
     IN  IF found = {}
         THEN UNCHANGED << pc, loc, io_trace >>
         ELSE \E event \in found :
                /\ pc' = [pc EXCEPT ![t] = "unev_stop"]
                /\ loc' = [loc EXCEPT ![t] = [NoLocals EXCEPT !.op = "unev",
                                                             !.event = event]]
                /\ io_trace' = << >>
  /\ history' = OtherHistory
  /\ UNCHANGED << gsi_routing_table_, next_gsi_, kernel_table, kernel_irqfds,
                  constructed, panic, ret_log, ioVars, registered_devices_,
                  ioevents_, kernel_ioeventfds, polled_fds, open_fds,
                  event_log, machineVars >>

\* What event_log records: the step, the event it was made on and the
\* thread that made it.
Logged(op, event, t) == [op |-> op, event |-> event, thread |-> t]

\* delete event has run on the event.
Freed(event) ==
  \E k \in 1..Len(event_log) :
    event_log[k].op = "delete" /\ event_log[k].event = event

\* io()->StopPolling(event->fd), with no lock held.  On an event another
\* call has deleted, event->fd is read from freed memory (undefined
\* behaviour): the fd read is the old one or any other.
UnregisterIoEvent_stop(t) ==
  /\ Alive /\ pc[t] = "unev_stop"
  /\ \E fd \in (IF Freed(loc[t].event) THEN Fds ELSE { loc[t].event.fd }) :
       /\ polled_fds' = polled_fds \ { fd }
       /\ io_trace' = Append(io_trace, StopPollingDone(fd))
  /\ ub' = (ub \/ Freed(loc[t].event))
  /\ event_log' = Append(event_log, Logged("StopPolling", loc[t].event, t))
  /\ pc' = [pc EXCEPT ![t] = "unev_deassign"]
  /\ UNCHANGED << gsiVars, pio_handlers_, mmio_handlers_, mutex_,
                  registered_devices_, ioevents_, kernel_ioeventfds, open_fds,
                  machineVars, loc, calls >>

\* The rest of UnregisterIoEvent under the lock_guard, on an event that is
\* live: the KVM_IOEVENTFD deassign (MV_PANIC when it fails),
\* ioevents_.erase(event), delete event.  The event's fd is not closed.
UnregisterIoEvent_deassign(t) ==
  /\ Alive /\ pc[t] = "unev_deassign" /\ mutex_ = NoThread
  /\ ~Freed(loc[t].event)
  /\ LET event == loc[t].event
         kvm_ioevent == KvmIoeventfd(event, event.flags \cup {"DEASSIGN"})
     IN  IF DeassignFails(kernel_ioeventfds, kvm_ioevent)
         THEN /\ panic' = MV_PANIC
              /\ pc' = [pc EXCEPT ![t] = "panic"]
              /\ io_trace' = Append(io_trace, DeassignDone(kvm_ioevent))
              /\ event_log' =
                   Append(event_log, Logged("KVM_IOEVENTFD", event, t))
              /\ UNCHANGED << kernel_ioeventfds, ioevents_, loc, history >>
         ELSE /\ panic' = panic
              /\ kernel_ioeventfds' =
                   kernel_ioeventfds \ { Assigned(kvm_ioevent) }
              /\ ioevents_' = ioevents_ \ { event }
              /\ io_trace' = io_trace \o << DeassignDone(kvm_ioevent),
                                            EraseDone(event),
                                            DeleteDone(event) >>
              /\ event_log' =
                   event_log \o << Logged("KVM_IOEVENTFD", event, t),
                                   Logged("erase", event, t),
                                   Logged("delete", event, t) >>
              /\ pc' = [pc EXCEPT ![t] = "idle"]
              /\ loc' = [loc EXCEPT ![t] = NoLocals]
              /\ history' = IF history.kind = "ev_unregistering"
                             THEN [history EXCEPT !.kind = "ev_unregistered"]
                             ELSE history
  /\ UNCHANGED << gsi_routing_table_, next_gsi_, kernel_table, kernel_irqfds,
                  constructed, ret_log, ioVars, registered_devices_,
                  polled_fds, open_fds, machineVars, calls >>

\* The same region run on an event another call has already deleted: type,
\* datamatch, address, length, fd and flags are read from freed memory and
\* the event is deleted a second time (undefined behaviour).  The fields
\* read are the old ones, and the deassign of a binding that is gone fails
\* (MV_PANIC); or the type read is neither kIoEventMmio nor kIoEventPio and
\* no ioctl is made; or the fields read name the binding of another event,
\* which is removed.  erase(event) finds nothing; delete event runs again.
UnregisterIoEvent_freed(t) ==
  /\ Alive /\ pc[t] = "unev_deassign" /\ mutex_ = NoThread
  /\ Freed(loc[t].event)
  /\ ub' = TRUE
  /\ LET event == loc[t].event
         kvm_ioevent == KvmIoeventfd(event, event.flags \cup {"DEASSIGN"})
     IN  \/ /\ panic' = MV_PANIC
            /\ pc' = [pc EXCEPT ![t] = "panic"]
            /\ io_trace' = Append(io_trace, DeassignDone(kvm_ioevent))
            /\ event_log' =
                 Append(event_log, Logged("KVM_IOEVENTFD", event, t))
            /\ UNCHANGED << kernel_ioeventfds, loc >>
         \/ /\ panic' = panic
            /\ \/ /\ UNCHANGED kernel_ioeventfds
                  /\ io_trace' = io_trace \o << EraseDone(event),
                                                DeleteDone(event) >>
                  /\ event_log' =
                       event_log \o << Logged("erase", event, t),
                                       Logged("delete", event, t) >>
               \/ \E other \in kernel_ioeventfds :
                    /\ kernel_ioeventfds' = kernel_ioeventfds \ { other }
                    /\ io_trace' =
                         io_trace \o << DeassignDone(
                                          [other EXCEPT !.flags =
                                             @ \cup {"DEASSIGN"}]),
                                        EraseDone(event),
                                        DeleteDone(event) >>
                    /\ event_log' =
                         event_log \o << Logged("KVM_IOEVENTFD", event, t),
                                         Logged("erase", event, t),
                                         Logged("delete", event, t) >>
            /\ pc' = [pc EXCEPT ![t] = "idle"]
            /\ loc' = [loc EXCEPT ![t] = NoLocals]
  /\ history' = OtherHistory
  /\ UNCHANGED << gsi_routing_table_, next_gsi_, kernel_table, kernel_irqfds,
                  constructed, ret_log, pio_handlers_, mmio_handlers_, mutex_,
                  registered_devices_, ioevents_, polled_fds, open_fds,
                  machineVars, calls >>

(* The event specification: events registered and unregistered, one call   *)
(* at a time.                                                              *)

EventAddresses == {0, 1}

\* length 0: no datamatch
EventLengths == {0, 2}

EventDatamatches == {0, 5}

IoTypes == {"PIO", "MMIO"}

NextEventSeq ==
  \E t \in Threads :
    \/ \E type \in IoTypes, address \in EventAddresses,
          length \in EventLengths, datamatch \in EventDatamatches :
         OthersIdle(t)
         /\ RegisterIoEvent_assign(t, "d1", type, address, length, datamatch)
    \/ RegisterIoEvent_poll(t)
    \/ RegisterIoEvent_insert(t)
    \/ \E event \in ioevents_ : OthersIdle(t) /\ UnregisterIoEvent_call(t, event)
    \/ \E type \in IoTypes, address \in EventAddresses :
         OthersIdle(t) /\ UnregisterIoEvent_find(t, "d1", type, address)
    \/ UnregisterIoEvent_stop(t)
    \/ UnregisterIoEvent_deassign(t)

SpecEventSeq == InitReg /\ [][NextEventSeq]_vars

(* Concurrent unregistration: two events are live, as two RegisterIoEvent  *)
(* calls leave them, and the threads unregister them at once.              *)

LiveEvents ==
  { NewIoEvent("d1", "PIO", 0, 0, 0, 10),
    NewIoEvent("d1", "MMIO", 1, 2, 5, 11) }

InitEvent ==
  /\ gsi_routing_table_ = SetupTable
  /\ next_gsi_ = FirstMsiGsi
  /\ kernel_table = SetupTable
  /\ kernel_irqfds = {}
  /\ constructed = TRUE
  /\ panic = FALSE
  /\ ub = FALSE
  /\ pio_handlers_ = << >>
  /\ mmio_handlers_ = << >>
  /\ mutex_ = NoThread
  /\ pc = [t \in Threads |-> "idle"]
  /\ loc = [t \in Threads |-> NoLocals]
  /\ ret_log = << >>
  /\ calls = 0
  /\ history = NoHistory
  /\ registered_devices_ = {}
  /\ ioevents_ = LiveEvents
  /\ kernel_ioeventfds = { KvmIoeventfd(e, e.flags) : e \in LiveEvents }
  /\ polled_fds = { e.fd : e \in LiveEvents }
  /\ open_fds = { e.fd : e \in LiveEvents }
  /\ io_trace = << >>
  /\ event_log = << >>
  /\ InitMachine

NextEvent ==
  \E t \in Threads :
    \/ \E event \in ioevents_ : UnregisterIoEvent_call(t, event)
    \/ \E type \in IoTypes, address \in EventAddresses :
         UnregisterIoEvent_find(t, "d1", type, address)
    \/ UnregisterIoEvent_stop(t)
    \/ UnregisterIoEvent_deassign(t)
    \/ UnregisterIoEvent_freed(t)

SpecEvent == InitEvent /\ [][NextEvent]_vars

-----------------------------------------------------------------------------
(* Machine::Quit                                                           *)

\* if (!valid_) return; : the read of valid_, with no lock held.
Quit_check(t) ==
  /\ Alive /\ Idle(t)
  /\ calls < MaxCalls
  /\ calls' = calls + 1
  /\ IF valid_
     THEN /\ pc' = [pc EXCEPT ![t] = "quit_set"]
          /\ loc' = [loc EXCEPT ![t] = [NoLocals EXCEPT !.op = "quit"]]
     ELSE UNCHANGED << pc, loc >>
  /\ UNCHANGED << gsiVars, ioVars, registered_devices_, eventVars,
                  machineVars >>

\* valid_ = false;
Quit_set(t) ==
  /\ Alive /\ pc[t] = "quit_set"
  /\ valid_' = FALSE
  /\ pc' = [pc EXCEPT ![t] = "quit_kick"]
  /\ UNCHANGED << gsiVars, ioVars, registered_devices_, eventVars, kicks,
                  io_stops, teardownVars, loc, calls >>

\* One iteration of for (auto vcpu: vcpus_) vcpu->Kick();
Quit_kick(t) ==
  /\ Alive /\ pc[t] = "quit_kick"
  /\ loc[t].i \in Vcpus
  /\ kicks' = [kicks EXCEPT ![loc[t].i] = @ + 1]
  /\ loc' = [loc EXCEPT ![t].i = @ + 1]
  /\ UNCHANGED << gsiVars, ioVars, registered_devices_, eventVars, valid_,
                  io_stops, teardownVars, pc, calls >>

\* io_thread_->Stop(); after the loop.
Quit_stop(t) ==
  /\ Alive /\ pc[t] = "quit_kick"
  /\ loc[t].i \notin Vcpus
  /\ io_stops' = io_stops + 1
  /\ pc' = [pc EXCEPT ![t] = "idle"]
  /\ loc' = [loc EXCEPT ![t] = NoLocals]
  /\ UNCHANGED << gsiVars, ioVars, registered_devices_, eventVars, valid_,
                  kicks, teardownVars, calls >>

(* The machine specification: threads calling Quit in any interleaving,   *)
(* while they also dispatch accesses of the guest.                         *)

\* A port with a handler and one without.
QuitPorts == {1, 4}

NextQuit ==
  \E t \in Threads :
    \/ Quit_check(t)
    \/ Quit_set(t)
    \/ Quit_kick(t)
    \/ Quit_stop(t)
    \/ \E port \in QuitPorts : HandleIo_lookup(t, port, 1, FALSE, 1)
    \/ \E base \in QuitPorts : HandleMmio_lookup(t, base, 1, FALSE)
    \/ IoInner(t)

SpecQuit == InitIo /\ [][NextQuit]_vars

-----------------------------------------------------------------------------
(* Machine::~Machine and RawImage::~RawImage                               *)

\* The parts of the machine ~Machine deletes by name.
Deleted(part) == \E k \in 1..Len(destroyed) : destroyed[k] = part

\* io->FSync(fd_, 0, callback), reached through device_->manager()->io():
\* the request, with whether the manager and the I/O worker it goes
\* through still exist.
FSyncRequest(object) ==
  [op |-> "FSync", by |-> object.name,
   manager_alive |-> ~Deleted("device_manager_"),
   io_alive |-> ~Deleted("io_thread_")]

\* RawImage::~RawImage: if (fd_ != -1) Flush(...), and Flush asks the I/O
\* worker only for an image that is not read-only.
AsksIoWorker(object) == object.image = "writable"

\* Machine::~Machine begins: valid_ = false.
Destroy_begin(t) ==
  /\ constructed /\ Alive /\ \A u \in Threads : Idle(u)
  /\ destroyed = << >>
  /\ calls < MaxCalls
  /\ calls' = calls + 1
  /\ valid_' = FALSE
  /\ pc' = [pc EXCEPT ![t] = "dtor_vcpus"]
  /\ loc' = [loc EXCEPT ![t] = [NoLocals EXCEPT !.op = "destroy"]]
  /\ UNCHANGED << gsiVars, ioVars, registered_devices_, eventVars, kicks,
                  io_stops, teardownVars >>

\* for (auto vcpu: vcpus_) delete vcpu;
Destroy_vcpus(t) ==
  /\ Alive /\ pc[t] = "dtor_vcpus"
  /\ destroyed' = Append(destroyed, "vcpus_")
  /\ pc' = [pc EXCEPT ![t] = "dtor_manager"]
  /\ UNCHANGED << gsiVars, ioVars, registered_devices_, eventVars, valid_,
                  kicks, io_stops, objects_, io_requests, loc, calls >>

\* delete device_manager_; ~DeviceManager disconnects the device tree.
Destroy_manager(t) ==
  /\ Alive /\ pc[t] = "dtor_manager"
  /\ destroyed' = Append(destroyed, "device_manager_")
  /\ pc' = [pc EXCEPT ![t] = "dtor_memory"]
  /\ UNCHANGED << gsiVars, ioVars, registered_devices_, eventVars, valid_,
                  kicks, io_stops, objects_, io_requests, loc, calls >>

\* delete memory_manager_;
Destroy_memory(t) ==
  /\ Alive /\ pc[t] = "dtor_memory"
  /\ destroyed' = Append(destroyed, "memory_manager_")
  /\ pc' = [pc EXCEPT ![t] = "dtor_io"]
  /\ UNCHANGED << gsiVars, ioVars, registered_devices_, eventVars, valid_,
                  kicks, io_stops, objects_, io_requests, loc, calls >>

\* delete io_thread_;
Destroy_io(t) ==
  /\ Alive /\ pc[t] = "dtor_io"
  /\ destroyed' = Append(destroyed, "io_thread_")
  /\ pc' = [pc EXCEPT ![t] = "dtor_objects"]
  /\ UNCHANGED << gsiVars, ioVars, registered_devices_, eventVars, valid_,
                  kicks, io_stops, objects_, io_requests, loc, calls >>

\* One iteration of the loop over objects_: delete it->second.  The map is
\* ordered by name, so any object can come first.  The destructor of a
\* writable image asks the I/O worker for an FSync through the manager; by
\* now both are deleted, and the call through them has undefined
\* behaviour: the process goes on, or it ends there.
Destroy_object(t) ==
  /\ Alive /\ pc[t] = "dtor_objects"
  /\ \E object \in objects_ :
       /\ objects_' = objects_ \ { object }
       /\ destroyed' = Append(destroyed, object.name)
       /\ IF AsksIoWorker(object)
          THEN /\ io_requests' = Append(io_requests, FSyncRequest(object))
               /\ LET dangling == \/ Deleted("device_manager_")
                                  \/ Deleted("io_thread_")
                  IN  /\ ub' = (ub \/ dangling)
                      /\ \/ /\ panic' = panic
                            /\ pc' = pc
                         \/ /\ dangling
                            /\ panic' = TRUE
                            /\ pc' = [pc EXCEPT ![t] = "panic"]
          ELSE UNCHANGED << io_requests, ub, panic, pc >>
  /\ UNCHANGED << gsi_routing_table_, next_gsi_, kernel_table, kernel_irqfds,
                  constructed, ret_log, history, pio_handlers_,
                  mmio_handlers_, mutex_, registered_devices_, eventVars,
                  valid_, kicks, io_stops, loc, calls >>

\* The loop is over: the kernel handles are closed, the BIOS buffers freed.
Destroy_end(t) ==
  /\ Alive /\ pc[t] = "dtor_objects" /\ objects_ = {}
  /\ destroyed' = Append(destroyed, "vm_fd_")
  /\ pc' = [pc EXCEPT ![t] = "destroyed"]
  /\ UNCHANGED << gsiVars, ioVars, registered_devices_, eventVars, valid_,
                  kicks, io_stops, objects_, io_requests, loc, calls >>

\* The machine as its constructor leaves it, for every configuration that
\* has a system-root.
InitDestroy ==
  /\ gsi_routing_table_ = SetupTable
  /\ next_gsi_ = FirstMsiGsi
  /\ kernel_table = SetupTable
  /\ kernel_irqfds = {}
  /\ constructed = TRUE
  /\ panic = FALSE
  /\ ub = FALSE
  /\ pio_handlers_ = InitialPioHandlers
  /\ mmio_handlers_ = InitialMmioHandlers
  /\ mutex_ = NoThread
  /\ pc = [t \in Threads |-> "idle"]
  /\ loc = [t \in Threads |-> NoLocals]
  /\ ret_log = << >>
  /\ calls = 0
  /\ history = NoHistory
  /\ registered_devices_ =
       { h.device : h \in Range(InitialPioHandlers)
                          \cup Range(InitialMmioHandlers) }
  /\ InitEvents
  /\ valid_ = TRUE
  /\ kicks = [v \in Vcpus |-> 0]
  /\ io_stops = 0
  /\ objects_ \in { S \in SUBSET ConfigObjects : SystemRoot \in S }
  /\ destroyed = << >>
  /\ io_requests = << >>

NextDestroy ==
  \E t \in Threads :
    \/ Destroy_begin(t)
    \/ Destroy_vcpus(t)
    \/ Destroy_manager(t)
    \/ Destroy_memory(t)
    \/ Destroy_io(t)
    \/ Destroy_object(t)
    \/ Destroy_end(t)

SpecDestroy == InitDestroy /\ [][NextDestroy]_vars

-----------------------------------------------------------------------------
(* Properties of the GSI routing mirror                                    *)

AllIdle == \A t \in Threads : Idle(t)

Distinct(s) == \A i, j \in 1..Len(s) : i # j => s[i] # s[j]

\* AddMsiRoute calls that have written next_gsi_: those that returned and
\* those past the store.
AddsStored ==
  Len(ret_log)
    + Cardinality({t \in Threads : loc[t].op = "add" /\ pc[t] # "add_store"})

\* C1: once no AddMsiRoute or UpdateMsiRoute is in progress, the mirror is
\* identical (same entries, same order) to the table of the last
\* KVM_SET_GSI_ROUTING that reached the kernel, whatever the interleaving.
C1_MirrorIsLastPush ==
  (constructed /\ AllIdle) => kernel_table = gsi_routing_table_

\* C2: next_gsi_ is strictly increasing: every AddMsiRoute adds exactly one
\* to it and returns the value it had before, so next_gsi_ is 24 plus the
\* number of calls that have incremented it, and no two calls, sequential
\* or concurrent, return the same gsi.
C2_GsiStrictlyIncreasing ==
  constructed =>
    /\ next_gsi_ = 24 + AddsStored
    /\ Distinct(ret_log)

PicEntries ==
  { [gsi |-> g, type |-> "IRQCHIP", w0 |-> 0, w1 |-> g, w2 |-> 0] :
      g \in {0, 1, 3, 4, 5, 6, 7} }
  \cup { [gsi |-> g, type |-> "IRQCHIP", w0 |-> 1, w1 |-> g - 8, w2 |-> 0] :
      g \in 8..15 }

\* The IOAPIC entries as the claim lists them: gsi 0 on pin 2, and gsi 3..23.
ClaimedIoapicEntries ==
  { [gsi |-> 0, type |-> "IRQCHIP", w0 |-> 2, w1 |-> 2, w2 |-> 0] }
  \cup { [gsi |-> g, type |-> "IRQCHIP", w0 |-> 2, w1 |-> g, w2 |-> 0] :
      g \in 3..23 }

\* The IOAPIC entries with gsi 1 on pin 1 among them.
IoapicEntries ==
  { [gsi |-> 0, type |-> "IRQCHIP", w0 |-> 2, w1 |-> 2, w2 |-> 0] }
  \cup { [gsi |-> g, type |-> "IRQCHIP", w0 |-> 2, w1 |-> g, w2 |-> 0] :
      g \in {1} \cup 3..23 }

MirrorEntries ==
  { gsi_routing_table_[i] : i \in 1..Len(gsi_routing_table_) }

\* C4 as claimed: after SetupGsiRoutingTable, before any other call, the
\* mirror holds exactly 38 IRQCHIP entries: the 7 PIC master and 8 PIC slave
\* entries and 23 IOAPIC entries that are gsi 0 on pin 2 plus gsi 3..23 with
\* pin = gsi; none has gsi 2, next_gsi_ is 24, the kernel has this table.
C4_InitialTableAsClaimed ==
  (constructed /\ calls = 0) =>
    /\ Len(gsi_routing_table_) = 38
    /\ MirrorEntries = PicEntries \cup ClaimedIoapicEntries
    /\ \A e \in MirrorEntries : e.gsi # 2
    /\ next_gsi_ = 24
    /\ kernel_table = gsi_routing_table_

\* C4 as amended: the 23 IOAPIC entries are gsi 0 on pin 2, gsi 1 on pin 1
\* and gsi 3..23 with pin = gsi; the rest as claimed.
C4_InitialTable ==
  (constructed /\ calls = 0) =>
    /\ Len(gsi_routing_table_) = 38
    /\ MirrorEntries = PicEntries \cup IoapicEntries
    /\ Cardinality({ e \in MirrorEntries : e.w0 = 0 }) = 7
    /\ Cardinality({ e \in MirrorEntries : e.w0 = 1 }) = 8
    /\ Cardinality({ e \in MirrorEntries : e.w0 = 2 }) = 23
    /\ \A e \in MirrorEntries : e.gsi # 2
    /\ next_gsi_ = 24
    /\ kernel_table = gsi_routing_table_

C4_Witness ==
  constructed /\ calls = 0 /\ Len(kernel_table) = 38

\* C9: gsi = AddMsiRoute(a, d, fd) followed by UpdateMsiRoute(gsi, 0, _, fd)
\* leaves the mirror as it was before the Add (same entries, same order),
\* the kernel's table equal to it, and the irqfd of the Add deassigned.
C9_AddRemoveRoundTrip ==
  history.kind = "removed" =>
    /\ gsi_routing_table_ = history.table
    /\ kernel_table = gsi_routing_table_
    /\ history.fd # -1 => <<history.fd, history.gsi>> \notin kernel_irqfds

C9_Witness ==
  /\ history.kind = "removed"
  /\ history.fd # -1
  /\ Len(history.table) > 38

\* C10: UpdateMsiRoute with a gsi that is not in the mirror panics and
\* changes neither the mirror nor the irqfds nor the kernel's table, and
\* nothing runs after the panic; with a gsi that is in the mirror and a
\* nonzero address it rewrites the address and data of one entry with that
\* gsi, leaves every other entry, the length and the order alone, and its
\* push makes the kernel's table the mirror.
C10_Step(t) ==
  LET g == loc'[t].gsi
      present == \E k \in 1..Len(gsi_routing_table_) :
                   gsi_routing_table_[k].gsi = g
  IN
  /\ (Idle(t) /\ ~Idle(t)' /\ loc'[t].op = "update" /\ ~present) =>
       /\ panic'
       /\ pc'[t] = "panic"
       /\ UNCHANGED << gsi_routing_table_, kernel_irqfds, kernel_table >>
  /\ (Idle(t) /\ ~Idle(t)' /\ loc'[t].op = "update" /\ present
        /\ loc'[t].address # <<0, 0>>) =>
       /\ ~panic'
       /\ pc'[t] = "upd_store"
       /\ Len(gsi_routing_table_') = Len(gsi_routing_table_)
       /\ \E k \in 1..Len(gsi_routing_table_) :
            /\ gsi_routing_table_[k].gsi = g
            /\ \A j \in 1..Len(gsi_routing_table_) :
                 j # k => gsi_routing_table_'[j] = gsi_routing_table_[j]
            /\ gsi_routing_table_'[k].gsi = g
            /\ gsi_routing_table_'[k].type = gsi_routing_table_[k].type
  /\ (pc[t] = "upd_store" /\ pc'[t] # "upd_store") =>
       /\ pc'[t] = "ugrt_alloc"
       /\ \E k \in 1..Len(gsi_routing_table_) :
            /\ gsi_routing_table_[k].gsi = loc[t].gsi
            /\ gsi_routing_table_' =
                 [gsi_routing_table_ EXCEPT
                    ![k] = [gsi |-> loc[t].gsi,
                            type |-> gsi_routing_table_[k].type,
                            w0 |-> loc[t].address[2],
                            w1 |-> loc[t].address[1],
                            w2 |-> loc[t].data]]
  /\ (loc[t].op = "update" /\ pc[t] = "ugrt_ioctl" /\ Idle(t)') =>
       kernel_table' = gsi_routing_table_'

C10_UpdateMsiRoute ==
  [][ /\ \A t \in Threads : C10_Step(t)
      /\ ~panic ]_vars

\* An IRQCHIP entry of gsi 5 was rewritten in place, and a later call with
\* gsi 26, which is not in the mirror, panicked.
C10_Witness ==
  /\ panic
  /\ \E t \in Threads : pc[t] = "panic" /\ loc[t].gsi = 26
  /\ \E k \in 1..Len(gsi_routing_table_) :
       /\ gsi_routing_table_[k].gsi = 5
       /\ gsi_routing_table_[k].w0 = 0
       /\ gsi_routing_table_[k].w1 = 1
  /\ Len(gsi_routing_table_) = 38

-----------------------------------------------------------------------------
(* Properties of the dispatchers                                           *)

\* Thread t enters HandleIo or HandleMmio in this step.
Enters(t) == Idle(t) /\ ~Idle(t)'

\* Thread t returns from HandleIo or HandleMmio in this step.
Returns(t) == ~Idle(t) /\ Idle(t)' /\ loc[t].op \in {"pio", "mmio"}

\* The table a dispatch of the kind op searches.
TableOf(op) == IF op = "pio" THEN pio_handlers_ ELSE mmio_handlers_

\* The entries of table whose range holds address.
Hits(table, address) ==
  { k \in 1..Len(table) :
      /\ table[k].resource.base <= address
      /\ address < table[k].resource.base + table[k].resource.length }

\* C5: HandleIo and HandleMmio dispatch to the device of the first entry, in
\* table order, whose resource satisfies base <= address < base + length,
\* and pass offset = address - base: the handler a dispatch settles on is
\* the entry of least index among those whose range holds the address (none
\* when no range does), it is the same from the lookup to the return, and
\* every device call is to its device, with its resource and that offset.
C5_Step(t) ==
  /\ Enters(t) /\ loc'[t].op \in {"pio", "mmio"} =>
       LET table == TableOf(loc'[t].op)
           hits == Hits(table, loc'[t].port)
       IN  IF hits = {} THEN loc'[t].handler = NoHandler
           ELSE \E k \in hits :
                  /\ \A j \in hits : k <= j
                  /\ loc'[t].handler = table[k]
  /\ ~Idle(t) /\ ~Idle(t)' /\ loc[t].op \in {"pio", "mmio"} =>
       /\ loc'[t].handler = loc[t].handler
       /\ loc'[t].port = loc[t].port
  /\ ~Idle(t) /\ ~Idle(t)' /\ loc'[t].log # loc[t].log =>
       /\ loc[t].handler # NoHandler
       /\ Len(loc'[t].log) = Len(loc[t].log) + 1
       /\ LET call == loc'[t].log[Len(loc'[t].log)] IN
            /\ call.device = loc[t].handler.device
            /\ call.resource = loc[t].handler.resource
            /\ call.offset = loc[t].port - loc[t].handler.resource.base

C5_FirstMatch == [][\A t \in Threads : C5_Step(t)]_vars

\* C5 witness: a PIO access at port 1, the last port of the first entry
\* [0, 2) of d1 and also inside the later entry [1, 3) of d2, has called
\* d1 with offset 1.
C5_Witness ==
  \E t \in Threads :
    /\ pc[t] = "io_ret" /\ loc[t].op = "pio" /\ loc[t].port = 1
    /\ Len(loc[t].log) = 1
    /\ loc[t].log[1].device = "d1"
    /\ loc[t].log[1].offset = 1

\* C6: move-to-front.  When HandleIo or HandleMmio matches a handler found
\* at index >= 3 of its table, that handler is at index 0 of the table when
\* the lock is released, before the device is invoked; when the match is at
\* index 0, 1 or 2 the order of the table is left unchanged.
C6_Step(t) ==
  Enters(t) /\ loc'[t].op \in {"pio", "mmio"} =>
    LET before == TableOf(loc'[t].op)
        after == IF loc'[t].op = "pio" THEN pio_handlers_' ELSE mmio_handlers_'
    IN  /\ loc'[t].it_count >= 3 =>
             /\ Len(after) > 0
             /\ after[1] = before[loc'[t].it_count + 1]
        /\ loc'[t].it_count \in 0..2 => after = before

C6_MoveToFront == [][\A t \in Threads : C6_Step(t)]_vars

\* C7: when no PIO handler matches the port, HandleIo calls no device; for
\* a read it fills the read buffer with 0xFF bytes, and for a write it
\* leaves the caller's data buffer unchanged; the handler tables are
\* unchanged.
C7_Step(t) ==
  /\ Enters(t) /\ loc'[t].op = "pio" /\ loc'[t].it_count = -1 =>
       /\ pio_handlers_' = pio_handlers_
       /\ mmio_handlers_' = mmio_handlers_
  /\ Returns(t) /\ loc[t].op = "pio" /\ loc[t].it_count = -1 =>
       /\ loc[t].log = << >>
       /\ loc[t].is_write =>
            loc[t].bytes = [k \in 1..Len(loc[t].bytes) |-> CallerByte]
       /\ ~loc[t].is_write =>
            \A k \in 1..Len(loc[t].bytes) : loc[t].bytes[k] = 255

C7_Unmatched == [][\A t \in Threads : C7_Step(t)]_vars

\* The calls HandleIo makes for a matched port, as C8 states them: count
\* calls, the i-th (from 0) with the same offset and the buffer position
\* i * size.
C8_CallsInSequence(l) ==
  /\ Len(l.log) = l.count
  /\ \A i \in 0..(l.count - 1) :
       /\ l.log[i + 1].device = l.handler.device
       /\ l.log[i + 1].offset = l.port - l.handler.resource.base
       /\ l.log[i + 1].pos = i * l.size
       /\ l.log[i + 1].size = l.size
       /\ l.log[i + 1].is_write = l.is_write

\* C8 as stated: for a matched port, HandleIo with count = n invokes the
\* device exactly n times in sequence, the i-th call receiving the same
\* offset and the position data + i*size; with count = 0 HandleIo is a
\* no-op: no device call, and neither the data buffer nor the handler table
\* (its order included) changes, whether or not a handler matches.
C8_StepAsClaimed(t) ==
  /\ Returns(t) /\ loc[t].op = "pio" /\ loc[t].it_count # -1 =>
       C8_CallsInSequence(loc[t])
  /\ Enters(t) /\ loc'[t].op = "pio" /\ loc'[t].count = 0 =>
       pio_handlers_' = pio_handlers_
  /\ Returns(t) /\ loc[t].op = "pio" /\ loc[t].count = 0 =>
       /\ loc[t].log = << >>
       /\ loc[t].bytes = [k \in 1..Len(loc[t].bytes) |-> CallerByte]

C8_CountZeroIsNoOp == [][\A t \in Threads : C8_StepAsClaimed(t)]_vars

\* C8 amended: for a matched port, HandleIo with count = n invokes the
\* device exactly n times in sequence, the i-th call receiving the same
\* offset and the position data + i*size; with count = 0 no device call is
\* made, and the data buffer is unchanged when a handler matches, while
\* with no match its first size bytes are still set to 0xFF.  (The table is
\* not left alone: a match at index >= 3 is promoted whatever count is.)
C8_Step(t) ==
  /\ Returns(t) /\ loc[t].op = "pio" /\ loc[t].it_count # -1 =>
       C8_CallsInSequence(loc[t])
  /\ Returns(t) /\ loc[t].op = "pio" /\ loc[t].count = 0 =>
       /\ loc[t].log = << >>
       /\ loc[t].it_count # -1 =>
            loc[t].bytes = [k \in 1..Len(loc[t].bytes) |-> CallerByte]
       /\ loc[t].it_count = -1 =>
            \A k \in 1..Len(loc[t].bytes) :
              loc[t].bytes[k] = IF k <= loc[t].size THEN 255 ELSE CallerByte

C8_CountCalls == [][\A t \in Threads : C8_Step(t)]_vars

\* C8 witness: HandleIo with count = 2 and size = 2 on a matched port is
\* about to return after its two device calls, the second at position 2.
C8_Witness ==
  \E t \in Threads :
    /\ pc[t] = "io_ret" /\ loc[t].op = "pio" /\ loc[t].it_count # -1
    /\ loc[t].count = 2 /\ loc[t].size = 2
    /\ Len(loc[t].log) = 2
    /\ loc[t].log[2].pos = 2

-----------------------------------------------------------------------------
(* Properties of the registration                                          *)

\* C11: in every reachable state, after any sequence of RegisterIoHandler,
\* UnregisterIoHandler, HandleIo and HandleMmio calls, each handler table
\* contains at most one entry per (device, resource.base) pair.
C11_OneEntryPerDeviceBase ==
  \A table \in { pio_handlers_, mmio_handlers_ } :
    \A i, j \in 1..Len(table) :
      (/\ table[i].device = table[j].device
       /\ table[i].resource.base = table[j].resource.base) => i = j

\* C12: in every reachable state, after any sequence of RegisterDevice,
\* UnregisterDevice, RegisterIoHandler and UnregisterIoHandler calls, the
\* device of every entry of pio_handlers_ and mmio_handlers_ is a member of
\* registered_devices_.
C12_HandlerDevicesRegistered ==
  \A h \in Range(pio_handlers_) \cup Range(mmio_handlers_) :
    h.device \in registered_devices_

\* C13: RegisterIoHandler(d, r) immediately followed by
\* UnregisterIoHandler(d, r) leaves the handler tables with the entries and
\* the order they had before the Register, whatever the tables held; and a
\* resource of type RAM changes neither table in either call.
C13_Step ==
  /\ history.kind = "registered" /\ history'.kind = "unregistered" =>
       << pio_handlers_', mmio_handlers_' >> = history.table
  /\ (/\ history' # history
      /\ history'.kind \in {"registered", "unregistered", "unregistered_alone"}
      /\ history'.resource.type = "RAM") =>
       /\ pio_handlers_' = pio_handlers_
       /\ mmio_handlers_' = mmio_handlers_

C13_RegisterUnregisterRoundTrip == [][C13_Step]_vars

\* C14: every operation that mutates registered_devices_, pio_handlers_,
\* mmio_handlers_, ioevents_ or gsi_routing_table_ holds the mutex while it
\* mutates: none of them changes in a step taken while a thread other than
\* the one taking the step holds mutex_.
C14_Step ==
  (\/ registered_devices_' # registered_devices_
   \/ pio_handlers_' # pio_handlers_
   \/ mmio_handlers_' # mmio_handlers_
   \/ ioevents_' # ioevents_
   \/ gsi_routing_table_' # gsi_routing_table_) =>
    \/ mutex_ = NoThread
    \/ pc'[mutex_] # pc[mutex_]
    \/ loc'[mutex_] # loc[mutex_]

C14_MutationsHoldMutex == [][C14_Step]_vars

-----------------------------------------------------------------------------
(* Properties of the events                                                *)

\* C15: UnregisterIoEvent(e) performs, in this order, StopPolling on e's
\* fd, the KVM_IOEVENTFD deassign with the (addr, len, datamatch, fd, flags)
\* used at registration, the close of the fd, the removal of e from the live
\* events and its deletion; after RegisterIoEvent followed by
\* UnregisterIoEvent the fd is closed and the set of live events is what it
\* was before the Register.
C15_Step ==
  history.kind = "ev_unregistering" /\ history'.kind = "ev_unregistered" =>
    LET e == history.event IN
      /\ io_trace' =
           << [op |-> "StopPolling", fd |-> e.fd],
              [op |-> "KVM_IOEVENTFD",
               arg |-> [datamatch |-> e.datamatch, addr |-> e.address,
                        len |-> e.length, fd |-> e.fd,
                        flags |-> e.flags \cup {"DEASSIGN"}]],
              [op |-> "close", fd |-> e.fd],
              [op |-> "erase", event |-> e],
              [op |-> "delete", event |-> e] >>
      /\ e.fd \notin open_fds'
      /\ ioevents_' = history.events

C15_UnregisterIoEvent == [][C15_Step]_vars

-----------------------------------------------------------------------------
(* Properties of the machine                                               *)

\* C16: Machine::Quit is idempotent.  The first Quit sets valid_ to false,
\* kicks every vCPU once and stops the I/O worker once; every later Quit,
\* and every Quit issued while another Quit is running on a different
\* thread, changes no state, kicks no vCPU and does not stop the I/O worker
\* again: no vCPU is ever kicked twice and the worker is never stopped
\* twice, and when valid_ is false and no Quit is running every vCPU was
\* kicked once and the worker stopped once.
C16_QuitIdempotent ==
  /\ \A v \in Vcpus : kicks[v] <= 1
  /\ io_stops <= 1
  /\ (~valid_ /\ \A t \in Threads : loc[t].op # "quit") =>
       /\ \A v \in Vcpus : kicks[v] = 1
       /\ io_stops = 1

-----------------------------------------------------------------------------
(* Properties of the push to the kernel                                    *)

\* C17: GSI table updates are atomic from the kernel's perspective.  Every
\* table handed to KVM_SET_GSI_ROUTING is the value the mirror had at the
\* instant of the copy, the buffer is not touched between the copy and the
\* ioctl, and at that instant no thread was inside a mutation of the
\* mirror: the kernel never receives a table copied while an entry was
\* being rewritten.
C17_Step(t) ==
  /\ (pc[t] = "ugrt_copy" /\ pc'[t] = "ugrt_ioctl") =>
       /\ loc'[t].buffer = gsi_routing_table_
       /\ \A u \in Threads : pc[u] # "upd_store"
  /\ (pc[t] = "ugrt_ioctl" /\ pc'[t] = "ugrt_ioctl") =>
       loc'[t].buffer = loc[t].buffer
  /\ (pc[t] = "ugrt_ioctl" /\ pc'[t] # "ugrt_ioctl" /\ ~panic') =>
       kernel_table' = loc[t].buffer
  /\ (constructed /\ kernel_table' # kernel_table) =>
       \E u \in Threads : pc[u] = "ugrt_ioctl" /\ pc'[u] # "ugrt_ioctl"

C17_WhenTheCopyFits ==
  [][\A t \in Threads :
       (pc[t] = "ugrt_ioctl" => Len(loc[t].buffer) <= loc[t].cap)
         => C17_Step(t)]_vars

\* C17 witness: one thread is about to copy the mirror for its push while
\* the other is in the middle of rewriting the entry of gsi 5, whose
\* address words are stored and whose data word is not.
C17_Witness ==
  \E t, u \in Threads :
    /\ pc[t] = "ugrt_copy"
    /\ pc[u] = "upd_store" /\ mutex_ = u /\ loc[u].gsi = 5
    /\ \E k \in 1..Len(gsi_routing_table_) :
         /\ gsi_routing_table_[k].gsi = 5
         /\ gsi_routing_table_[k].w1 = 1
         /\ gsi_routing_table_[k].w2 = 0

-----------------------------------------------------------------------------
(* Properties of an MMIO access no handler matches                         *)

\* Thread t returns from a HandleMmio whose loop found no handler.
MmioMissReturns(t) ==
  Returns(t) /\ loc[t].op = "mmio" /\ loc[t].it_count = -1

\* C18 as stated: when no MMIO handler matches the address, HandleMmio with
\* is_write = false leaves every one of the size bytes of the read buffer
\* equal to 0xFF, and with is_write = true it changes nothing.
C18_StepAsClaimed(t) ==
  MmioMissReturns(t) =>
    /\ ~loc[t].is_write =>
         \A k \in 1..loc[t].size : loc[t].bytes[k] = 255
    /\ loc[t].is_write => loc[t].bytes = CallerBuffer(loc[t].size, 1)

C18_MmioMissReadsAllOnes == [][\A t \in Threads : C18_StepAsClaimed(t)]_vars

\* C18 amended: when no MMIO handler matches the address, HandleMmio calls
\* no device, leaves both handler tables as they were and writes to none of
\* the bytes of the buffer, for a read as for a write: a read returns the
\* bytes the buffer held before the call, not 0xFF.
C18_Step(t) ==
  /\ Enters(t) /\ loc'[t].op = "mmio" /\ loc'[t].it_count = -1 =>
       /\ pio_handlers_' = pio_handlers_
       /\ mmio_handlers_' = mmio_handlers_
  /\ MmioMissReturns(t) =>
       /\ loc[t].log = << >>
       /\ loc[t].bytes = CallerBuffer(loc[t].size, 1)

C18_MmioMissTouchesNothing == [][\A t \in Threads : C18_Step(t)]_vars

\* C18 witness: a two-byte MMIO read at address 4, which no handler
\* covers, is about to return with the caller's bytes still in the buffer.
C18_Witness ==
  \E t \in Threads :
    /\ pc[t] = "io_ret" /\ loc[t].op = "mmio" /\ loc[t].it_count = -1
    /\ loc[t].port = 4 /\ ~loc[t].is_write /\ loc[t].size = 2
    /\ loc[t].bytes = << CallerByte, CallerByte >>

-----------------------------------------------------------------------------
(* Properties of the dispatchers' use of the mutex                         *)

\* Thread t is inside HandleIo or HandleMmio.
Dispatching(t) == loc[t].op \in {"pio", "mmio"}

\* C19: the dispatcher holds the manager mutex only during lookup and
\* promotion.  On every path through HandleIo and HandleMmio the mutex
\* taken at entry is held up to the one mutex_.unlock() and is released
\* exactly once; from then on, through every device Read or Write and up to
\* the return, the thread does not hold it, so whoever holds the mutex
\* while a device call is in progress is another thread in its own lookup.
C19_LockOnlyForLookup ==
  \A t \in Threads :
    Dispatching(t) =>
      /\ pc[t] = "io_unlock" => (mutex_ = t /\ loc[t].unlocks = 0)
      /\ pc[t] \in {"io_call", "io_miss", "io_ret"} =>
           /\ loc[t].unlocks = 1
           /\ mutex_ # t
           /\ mutex_ # NoThread => pc[mutex_] = "io_unlock"

\* C19 witness: while one thread is between two device calls of a PIO
\* access, the other has taken the mutex for the lookup of a handler it
\* found at index 3.
C19_Witness ==
  \E t, u \in Threads :
    /\ pc[t] = "io_call" /\ loc[t].op = "pio" /\ loc[t].i = 1
    /\ loc[t].unlocks = 1
    /\ mutex_ = u /\ u # t /\ pc[u] = "io_unlock" /\ loc[u].it_count = 3

-----------------------------------------------------------------------------
(* Properties of the dispatchers' effect on the handler tables             *)

\* The number of places of s that hold e.
Occurrences(s, e) == Cardinality({ k \in 1..Len(s) : s[k] = e })

\* s and r hold the same entries, each as many times.
SameEntries(s, r) ==
  /\ Len(s) = Len(r)
  /\ \A e \in Range(s) \cup Range(r) : Occurrences(s, e) = Occurrences(r, e)

\* s without the entries equal to e, in order.
Without(s, e) == SelectSeq(s, LAMBDA x : x # e)

\* The lookup of a dispatch by thread t, seen as a change of its table:
\* the entries are the same, and so is the order of those other than the
\* matched one.
C20_Step(t) ==
  Enters(t) /\ loc'[t].op \in {"pio", "mmio"} =>
    LET before == TableOf(loc'[t].op)
        after == IF loc'[t].op = "pio" THEN pio_handlers_' ELSE mmio_handlers_'
    IN  /\ SameEntries(before, after)
        /\ Without(after, loc'[t].handler) = Without(before, loc'[t].handler)

\* C20: HandleIo and HandleMmio only permute their handler table: after
\* any sequence of dispatches the table holds exactly the same handler
\* entries as before (none lost, none duplicated), and the relative order
\* of the entries other than a promoted one is unchanged.
C20_DispatchOnlyPermutes ==
  /\ [](/\ SameEntries(pio_handlers_, InitialPioHandlers)
        /\ SameEntries(mmio_handlers_, InitialMmioHandlers))
  /\ [][\A t \in Threads : C20_Step(t)]_vars

\* The same as long as every erase(it) has removed the element it had
\* pointed at.
C20_WhenEraseHitsIt ==
  /\ [](~ub => /\ SameEntries(pio_handlers_, InitialPioHandlers)
               /\ SameEntries(mmio_handlers_, InitialMmioHandlers))
  /\ [][\A t \in Threads : ~ub' => C20_Step(t)]_vars

-----------------------------------------------------------------------------
(* Properties of the push buffer                                           *)

\* C21: in UpdateGsiRoutingTable the number of entries copied into the push
\* buffer never exceeds the number of entries the buffer was sized for,
\* under any interleaving: the table size read when the buffer is
\* allocated equals the table size used for the copy made under the lock.
C21_CopyFitsBuffer ==
  \A t \in Threads :
    pc[t] = "ugrt_ioctl" =>
      /\ Len(loc[t].buffer) <= loc[t].cap
      /\ Len(loc[t].buffer) = loc[t].cap

-----------------------------------------------------------------------------
(* Properties of concurrent unregistration                                 *)

\* The number of steps op that event_log holds for event.
Steps(op, event) ==
  Cardinality({ k \in 1..Len(event_log) :
                  event_log[k].op = op /\ event_log[k].event = event })

\* C22: an IoEvent is deassigned and freed at most once.  For any
\* interleaving of UnregisterIoEvent(device, type, address) and
\* UnregisterIoEvent(event) calls that refer to the same live event, at
\* most one of them stops polling, deassigns the kernel binding and deletes
\* the event, exactly one has done each once the calls have returned, and
\* no call touches the event after it has been deleted.
C22_UnregisteredOnce ==
  \A e \in { event_log[k].event : k \in 1..Len(event_log) } :
    /\ Steps("StopPolling", e) <= 1
    /\ Steps("KVM_IOEVENTFD", e) <= 1
    /\ Steps("delete", e) <= 1
    /\ \A j, k \in 1..Len(event_log) :
         (j < k /\ event_log[j].op = "delete" /\ event_log[j].event = e)
           => event_log[k].event # e
    /\ (\A t \in Threads : Idle(t)) =>
         /\ Steps("StopPolling", e) = 1
         /\ Steps("KVM_IOEVENTFD", e) = 1
         /\ Steps("delete", e) = 1

-----------------------------------------------------------------------------
(* Properties of the IRQCHIP entries                                       *)

\* The entries of type IRQCHIP, in table order.
IrqchipEntries(table) == SelectSeq(table, LAMBDA e : e.type = "IRQCHIP")

\* C23: UpdateMsiRoute changes or removes only entries of type MSI: for
\* every gsi argument and every address, the 38 IRQCHIP entries installed
\* by SetupGsiRoutingTable are present and unmodified in the mirror.
C23_IrqchipEntriesKept ==
  constructed =>
    /\ \A e \in Range(SetupTable) : e \in Range(gsi_routing_table_)
    /\ Len(IrqchipEntries(gsi_routing_table_)) = Len(SetupTable)

\* The same for the calls whose gsi argument is one AddMsiRoute hands out
\* (24 and up): no step taken while every UpdateMsiRoute in progress has
\* such a gsi changes an IRQCHIP entry.
C23_WhenGsiIsMsi ==
  [][(/\ constructed
      /\ \A t \in Threads :
           /\ loc[t].op = "update" => loc[t].gsi >= FirstMsiGsi
           /\ loc'[t].op = "update" => loc'[t].gsi >= FirstMsiGsi)
       => IrqchipEntries(gsi_routing_table_')
            = IrqchipEntries(gsi_routing_table_)]_vars

-----------------------------------------------------------------------------
(* Properties of the destruction of the machine                            *)

\* The place of part in destroyed, 0 when it is not there.
DestroyedAt(part) ==
  IF Deleted(part)
  THEN CHOOSE k \in 1..Len(destroyed) : destroyed[k] = part
  ELSE 0

\* C24: during Machine destruction no operation is issued to the I/O
\* worker or the device manager after that object has been destroyed:
\* every object created by configuration that uses them in its destructor
\* is destroyed before the device manager and the I/O worker are.
C24_NoUseAfterDestroy ==
  /\ \A k \in 1..Len(io_requests) :
       io_requests[k].manager_alive /\ io_requests[k].io_alive
  /\ \A object \in ConfigObjects :
       (AsksIoWorker(object) /\ Deleted(object.name)) =>
         /\ Deleted("device_manager_") =>
              DestroyedAt(object.name) < DestroyedAt("device_manager_")
         /\ Deleted("io_thread_") =>
              DestroyedAt(object.name) < DestroyedAt("io_thread_")

\* The objects whose deletion destroys no image, a read-only image or an
\* image never opened ask nothing of the I/O worker: every request comes
\* from a writable image.
C24_OnlyWritableImagesAsk ==
  \A k \in 1..Len(io_requests) :
    \E object \in ConfigObjects :
      object.name = io_requests[k].by /\ object.image = "writable"

=============================================================================
